---- MODULE Spec2Model ----
(***************************************************************************)
(* The WebDriver protocol bridge of components/webdriver_server/lib.rs:    *)
(* the Handler (one thread, commands handled strictly one after another),  *)
(* its session, the controller channel it sends on, the shared load-status *)
(* channel it waits on, and the engine on the other side of both.          *)
(***************************************************************************)
EXTENDS Integers, Sequences, FiniteSets, TLC

VARIABLES
    session,               \* Handler.session: Option<WebDriverSession>
    pc,                    \* where the Handler thread is
    last,                  \* the command being handled, or the last one handled, and its response
    sent,                  \* messages that command put on constellation_chan, in order
    load_status_receiver,  \* Handler.load_status_receiver: load statuses forwarded, not yet received
    loading,               \* engine: navigations whose load status has not been sent yet
    navCount,              \* navigations started so far (names the navigation of a load status)
    uuidCount,             \* Uuid::new_v4 values drawn so far
    engine,                \* engine: keys and buttons held down by the events of the current session
    document,              \* engine: the document of the top-level browsing context
    windows,               \* the window, the size requests on their way and the helper threads
    prefs,                 \* prefs::pref_map(): the preference store of the process
    flow,                  \* layout: the MarginCollapseInfo of a block flow and the child in hand
    dialog                 \* script: an HTMLDialogElement and the close events queued for it

vars == <<session, pc, last, sent, load_status_receiver, loading, navCount, uuidCount, engine,
          document, windows, prefs, flow, dialog>>

-----------------------------------------------------------------------------
(* Bounds of the model *)

MaxNav == 2
MaxUuid == 2
MaxCancel == 3
\* The engine fails a replay at one of its first MaxFail actions, or at none
MaxFail == 2

-----------------------------------------------------------------------------
(* Option<T>, Result<T, E> and the response types *)

None == <<>>
Some(x) == <<x>>
IsSome(o) == Len(o) = 1
Unwrap(o) == o[1]

Ok(kind, val) == [ok |-> TRUE, kind |-> kind, status |-> "", msg |-> "", val |-> val]
Err(status, msg) == [ok |-> FALSE, kind |-> "Error", status |-> status, msg |-> msg, val |-> <<>>]
Pending == [ok |-> FALSE, kind |-> "Pending", status |-> "", msg |-> "", val |-> <<>>]
Panicked == [ok |-> FALSE, kind |-> "Panic", status |-> "", msg |-> "", val |-> <<>>]

\* JSON values (serde_json::Value), as far as the bridge looks into them
JNull == [t |-> "null"]
JNum(n) == [t |-> "num", v |-> n]
JStr(s) == [t |-> "str", v |-> s]
JBool(b) == [t |-> "bool", v |-> b]
\* An object, as the sequence of its (key, value) entries
JObject(entries) == [t |-> "object", v |-> entries]

\* Value::as_u64: a number gives Some, anything else None
AsU64(j) == IF j.t = "num" /\ j.v >= 0 THEN Some(j.v) ELSE None

\* Value::as_bool().unwrap() on a validated capability
AsBool(j) == j.v

\* Value::to_string: the JSON text of the value (a string keeps its quotes)
JsonToString(j) ==
    CASE j.t = "str" -> "\"" \o j.v \o "\""
      [] j.t = "null" -> "null"
      [] j.t = "bool" -> IF j.v THEN "true" ELSE "false"

-----------------------------------------------------------------------------
(* Identifiers *)

\* Uuid::new_v4(): a value never drawn before
NewUuid(n) == <<"uuid", n + 1>>

\* Uuid::to_string
UuidToString(u) == <<"uuid-text", u[2]>>

\* The top-level browsing contexts the engine may report as focused
TopLevelIds == {<<"top", 1>>}

\* BrowsingContextId::from(TopLevelBrowsingContextId): the id inside the wrapper
BrowsingContextIdFrom(t) == <<"ctx", t[2]>>

-----------------------------------------------------------------------------
(* WebDriverSession *)

DefaultScriptTimeout == 30000
DefaultLoadTimeout == 300000
DefaultImplicitWait == 0

EmptyTable == [s \in {} |-> 0]

\* A session that starts with no script timeout and the page load timeout of a test run
WebDriverSessionNewUnbounded(uuid, browsing_context_id, top_level_browsing_context_id) ==
    [ id |-> uuid,
      browsing_context_id |-> browsing_context_id,
      top_level_browsing_context_id |-> top_level_browsing_context_id,
      script_timeout |-> None,
      load_timeout |-> 50,
      implicit_wait_timeout |-> DefaultImplicitWait,
      page_loading_strategy |-> "normal",
      strict_file_interactability |-> FALSE,
      unhandled_prompt_behavior |-> "dismiss and notify",
      input_state_table |-> EmptyTable,
      input_cancel_list |-> <<>> ]

WebDriverSessionNew(uuid, browsing_context_id, top_level_browsing_context_id) ==
    [ id |-> uuid,
      browsing_context_id |-> browsing_context_id,
      top_level_browsing_context_id |-> top_level_browsing_context_id,
      script_timeout |-> Some(DefaultScriptTimeout),
      load_timeout |-> DefaultLoadTimeout,
      implicit_wait_timeout |-> DefaultImplicitWait,
      page_loading_strategy |-> "normal",
      strict_file_interactability |-> FALSE,
      unhandled_prompt_behavior |-> "dismiss and notify",
      input_state_table |-> EmptyTable,
      input_cancel_list |-> <<>> ]

-----------------------------------------------------------------------------
(* Commands *)

\* The WebDriverCommand variants handle_command has an arm for
Handled ==
    { "NewSession", "DeleteSession", "Status", "AddCookie", "Get", "GetCurrentUrl",
      "GetWindowRect", "SetWindowRect", "IsEnabled", "IsSelected", "GoBack", "GoForward",
      "Refresh", "GetTitle", "GetWindowHandle", "GetWindowHandles", "SwitchToFrame",
      "SwitchToParentFrame", "SwitchToWindow", "FindElement", "FindElements",
      "FindElementElement", "FindElementElements", "GetNamedCookie", "GetCookies",
      "GetActiveElement", "GetElementRect", "GetElementText", "GetElementTagName",
      "GetElementAttribute", "GetElementProperty", "GetCSSValue", "GetPageSource",
      "PerformActions", "ReleaseActions", "ExecuteScript", "ExecuteAsyncScript",
      "ElementSendKeys", "ElementClick", "DismissAlert", "DeleteCookies", "GetTimeouts",
      "SetTimeouts", "TakeScreenshot", "TakeElementScreenshot",
      "GetPrefs", "SetPrefs", "ResetPrefs" }

\* Variants of the protocol that fall to the `_` arm
Unhandled == { "CloseWindow", "AcceptAlert", "GetAlertText", "MaximizeWindow" }

Commands == Handled \cup Unhandled

\* Handler::session: the error when there is none
SessionError == Err("SessionNotCreated", "Session not created")

\* handle_command, first match: NewSession and Status pass, the rest need a session
AdmittedLoose(cmd, sess) == cmd \in {"NewSession", "Status", "DeleteSession"} \/ IsSome(sess)
Admitted(cmd, sess) == cmd \in {"NewSession", "Status"} \/ IsSome(sess)

-----------------------------------------------------------------------------
(* Messages on constellation_chan *)

LoadStatusSender == "load_status_sender"

LoadUrlMsg(top, url) ==
    [msg |-> "LoadUrl", ctx |-> top, url |-> url, sender |-> LoadStatusSender]
RefreshMsg(top) ==
    [msg |-> "Refresh", ctx |-> top, sender |-> LoadStatusSender]
FocusMsg == [msg |-> "GetFocusTopLevelBrowsingContext"]
ScriptCommandMsg(ctx, cmd) == [msg |-> "ScriptCommand", ctx |-> ctx, cmd |-> cmd]

IsNavigation(m) == m.msg \in {"LoadUrl", "Refresh"}

-----------------------------------------------------------------------------
(* The record of the command in hand *)

Started(cmd, arg) ==
    [ cmd |-> cmd, arg |-> arg, resp |-> Pending,
      had |-> IsSome(session),  \* a session existed when the command arrived
      kept |-> TRUE,            \* the command left Handler.session as it found it
      nav |-> 0,                \* the navigation the command started
      got |-> <<>>,             \* the load status or the GetBrowsingContextId reply it received
      timeout |-> 0,            \* the deadline wait_for_load read
      queued |-> FALSE,         \* a load status was there when it timed out
      hangup |-> FALSE ]        \* the engine dropped its reply sender

\* A command that returns without waiting on the engine
Return(cmd, arg, resp, sess, msgs) ==
    /\ last' = [Started(cmd, arg) EXCEPT !.resp = resp, !.kept = (sess = session)]
    /\ session' = sess
    /\ sent' = msgs
    /\ pc' = "idle"

EngineIdle == UNCHANGED <<load_status_receiver, loading, navCount, windows, prefs, engine, document>>

-----------------------------------------------------------------------------
(* layout::model: AdjoiningMargins, CollapsibleMargins and MarginCollapseInfo *)

MaxChildren == 3

\* Au values of the margins
Aus == {-2, 0, 3}

Max(a, b) == IF a >= b THEN a ELSE b
Min(a, b) == IF a <= b THEN a ELSE b

\* AdjoiningMargins::new, from_margin, union (the value self has after it), collapse
AdjoiningMarginsNew == [most_positive |-> 0, most_negative |-> 0]
FromMargin(margin_value) ==
    IF margin_value >= 0 THEN [most_positive |-> margin_value, most_negative |-> 0]
    ELSE [most_positive |-> 0, most_negative |-> margin_value]
Union(self, other) ==
    [ most_positive |-> Max(self.most_positive, other.most_positive),
      most_negative |-> Min(self.most_negative, other.most_negative) ]
Collapse(self) == self.most_positive + self.most_negative

\* CollapsibleMargins: the variant, with the two Au of None in au and the AdjoiningMargins
\* of Collapse (two) and CollapseThrough (one) in adjoining; the slots a variant does
\* not have are zero
MarginsNone(block_start, block_end) ==
    [ variant |-> "None", au |-> <<block_start, block_end>>,
      adjoining |-> <<AdjoiningMarginsNew, AdjoiningMarginsNew>> ]
MarginsCollapse(block_start, block_end) ==
    [ variant |-> "Collapse", au |-> <<0, 0>>, adjoining |-> <<block_start, block_end>> ]
MarginsCollapseThrough(margin) ==
    [ variant |-> "CollapseThrough", au |-> <<0, 0>>,
      adjoining |-> <<margin, AdjoiningMarginsNew>> ]

\* The children a block flow may have
ChildMargins ==
    {MarginsNone(a, b) : a, b \in Aus}
      \cup {MarginsCollapse(FromMargin(a), FromMargin(b)) : a, b \in Aus}
      \cup {MarginsCollapseThrough(Union(FromMargin(a), FromMargin(b))) : a, b \in Aus}

\* MarginCollapseInfo::initialize_block_start_margin
InitializeBlockStartMargin(block_start, can_collapse_block_start_margin_with_kids) ==
    [ state |-> IF can_collapse_block_start_margin_with_kids
                THEN "AccumulatingCollapsibleTopMargin" ELSE "AccumulatingMarginIn",
      block_start_margin |-> FromMargin(block_start),
      margin_in |-> AdjoiningMarginsNew ]

\* An advance that keeps the margin accumulated before a child whose margins do not collapse
AdvanceBlockStartMarginKeeping(self, child, can_collapse_block_start_margin) ==
    LET state == IF can_collapse_block_start_margin THEN self.state ELSE "AccumulatingMarginIn"
    IN  CASE child.variant = "CollapseThrough" ->
               [info |-> [self EXCEPT !.state = state], advance |-> 0]
          [] state = "AccumulatingCollapsibleTopMargin" /\ child.variant = "None" ->
               [info |-> [self EXCEPT !.state = "AccumulatingMarginIn"], advance |-> child.au[1]]
          [] state = "AccumulatingCollapsibleTopMargin" /\ child.variant = "Collapse" ->
               [info |-> [self EXCEPT !.state = "AccumulatingMarginIn",
                                      !.block_start_margin = Union(@, child.adjoining[1])],
                advance |-> 0]
          [] state = "AccumulatingMarginIn" /\ child.variant = "None" ->
               [info |-> [self EXCEPT !.state = state],
                advance |-> Collapse(self.margin_in) + child.au[1]]
          [] state = "AccumulatingMarginIn" /\ child.variant = "Collapse" ->
               [info |-> [self EXCEPT !.state = state, !.margin_in = AdjoiningMarginsNew],
                advance |-> Collapse(Union(self.margin_in, child.adjoining[1]))]
\* MarginCollapseInfo::advance_block_start_margin: self after the call and the Au returned
AdvanceBlockStartMargin(self, child, can_collapse_block_start_margin) ==
    LET state == IF can_collapse_block_start_margin THEN self.state ELSE "AccumulatingMarginIn"
    IN  CASE child.variant = "CollapseThrough" ->
               [info |-> [self EXCEPT !.state = state], advance |-> 0]
          [] state = "AccumulatingCollapsibleTopMargin" /\ child.variant = "None" ->
               [info |-> [self EXCEPT !.state = "AccumulatingMarginIn"], advance |-> child.au[1]]
          [] state = "AccumulatingCollapsibleTopMargin" /\ child.variant = "Collapse" ->
               [info |-> [self EXCEPT !.state = "AccumulatingMarginIn",
                                      !.block_start_margin = Union(@, child.adjoining[1])],
                advance |-> 0]
          [] state = "AccumulatingMarginIn" /\ child.variant = "None" ->
               [info |-> [self EXCEPT !.state = state, !.margin_in = AdjoiningMarginsNew],
                advance |-> Collapse(self.margin_in) + child.au[1]]
          [] state = "AccumulatingMarginIn" /\ child.variant = "Collapse" ->
               [info |-> [self EXCEPT !.state = state, !.margin_in = AdjoiningMarginsNew],
                advance |-> Collapse(Union(self.margin_in, child.adjoining[1]))]

\* MarginCollapseInfo::advance_block_end_margin: self after the call, the Au returned, and
\* how the call ended: it returned, the panic! arm was taken, or an assert_eq! failed
AdvanceBlockEndMargin(self, child) ==
    CASE self.state = "AccumulatingCollapsibleTopMargin" /\ child.variant \in {"None", "Collapse"} ->
           [info |-> self, advance |-> 0, ended |-> "panic"]
      [] self.state = "AccumulatingCollapsibleTopMargin" /\ child.variant = "CollapseThrough" ->
           [info |-> [self EXCEPT !.block_start_margin = Union(@, child.adjoining[1])],
            advance |-> 0, ended |-> "returned"]
      [] self.state = "AccumulatingMarginIn" /\ child.variant = "None" ->
           IF self.margin_in.most_positive = 0 /\ self.margin_in.most_negative = 0
           THEN [info |-> self, advance |-> child.au[2], ended |-> "returned"]
           ELSE [info |-> self, advance |-> 0, ended |-> "assert"]
      [] self.state = "AccumulatingMarginIn" /\ child.variant = "Collapse" ->
           [info |-> [self EXCEPT !.margin_in = Union(@, child.adjoining[2])],
            advance |-> 0, ended |-> "returned"]
      [] self.state = "AccumulatingMarginIn" /\ child.variant = "CollapseThrough" ->
           [info |-> [self EXCEPT !.margin_in = Union(@, child.adjoining[1])],
            advance |-> 0, ended |-> "returned"]

\* No block flow is being laid out yet
NoFlow == [info |-> None, child |-> None, children |-> 0, advance |-> 0, ended |-> "returned"]

BridgeIdle ==
    UNCHANGED <<session, pc, last, sent, load_status_receiver, loading, navCount, uuidCount,
                engine, document, windows, prefs>>

\* The layout of a block flow begins
BeginBlock ==
    /\ ~IsSome(flow.info)
    /\ \E block_start \in Aus, can_collapse \in BOOLEAN :
         flow' = [flow EXCEPT !.info = Some(InitializeBlockStartMargin(block_start, can_collapse))]
    /\ UNCHANGED dialog
    /\ BridgeIdle

\* The block-start margin of the next child is added
ChildBlockStart ==
    /\ IsSome(flow.info)
    /\ ~IsSome(flow.child)
    /\ flow.ended = "returned"
    /\ flow.children < MaxChildren
    /\ \E child \in ChildMargins, can_collapse \in BOOLEAN :
         LET o == AdvanceBlockStartMargin(Unwrap(flow.info), child, can_collapse)
         IN flow' = [flow EXCEPT !.info = Some(o.info), !.child = Some(child),
                                 !.children = @ + 1, !.advance = o.advance]
    /\ UNCHANGED dialog
    /\ BridgeIdle

\* The block-end margin of the child in hand is added
ChildBlockEnd ==
    /\ IsSome(flow.info)
    /\ IsSome(flow.child)
    /\ LET o == AdvanceBlockEndMargin(Unwrap(flow.info), Unwrap(flow.child))
       IN flow' = [flow EXCEPT !.info = Some(o.info), !.child = None,
                               !.advance = o.advance, !.ended = o.ended]
    /\ UNCHANGED dialog
    /\ BridgeIdle

-----------------------------------------------------------------------------
(* script::dom::htmldialogelement *)

MaxCalls == 4

\* The DOMString values of returnValue
ReturnValues == {"", "x", "y"}

\* HTMLDialogElement::new_inherited: no open attribute, an empty return_value; no close
\* event queued on the DOM manipulation task source, no call made yet
NewDialog ==
    [ open |-> FALSE, return_value |-> "", queued |-> 0,
      calls |-> 0, call |-> "", was_open |-> FALSE, argument |-> None ]

\* A Close that queues its event whether or not the attribute was there
CloseQueuesAlways(self, return_value) ==
    [self EXCEPT !.open = FALSE,
                 !.return_value = IF self.open /\ IsSome(return_value)
                                  THEN Unwrap(return_value) ELSE @,
                 !.queued = @ + 1]
\* HTMLDialogElementMethods::Close
Close(self, return_value) ==
    IF ~self.open THEN self
    ELSE [self EXCEPT !.open = FALSE,
                      !.return_value = IF IsSome(return_value) THEN Unwrap(return_value) ELSE @,
                      !.queued = @ + 1]

\* The record of a call on the dialog
Called(d, self, call, argument) ==
    [d EXCEPT !.calls = self.calls + 1, !.call = call, !.was_open = self.open,
              !.argument = argument]

\* make_bool_setter!(SetOpen, "open")
SetOpen ==
    /\ dialog.calls < MaxCalls
    /\ \E value \in BOOLEAN :
         dialog' = Called([dialog EXCEPT !.open = value], dialog, "SetOpen", None)
    /\ UNCHANGED flow
    /\ BridgeIdle

\* HTMLDialogElementMethods::SetReturnValue
SetReturnValue ==
    /\ dialog.calls < MaxCalls
    /\ \E value \in ReturnValues :
         dialog' = Called([dialog EXCEPT !.return_value = value], dialog, "SetReturnValue", None)
    /\ UNCHANGED flow
    /\ BridgeIdle

DialogClose ==
    /\ dialog.calls < MaxCalls
    /\ \E return_value \in {None} \cup {Some(v) : v \in ReturnValues} :
         dialog' = Called(Close(dialog, return_value), dialog, "Close", return_value)
    /\ UNCHANGED flow
    /\ BridgeIdle

-----------------------------------------------------------------------------
(* Initial state: Handler::new *)

NoPressed == [keys |-> {}, buttons |-> {}]

\* The document the engine starts with: gen names the document (0, or the navigation that
\* loaded it), pending counts the history traversals asked for and not yet performed
FirstDocument == [gen |-> 0, pending |-> 0]

\* The preference store (servo_config::prefs) as the process starts
PrefNames == {"a", "b", "c"}

\* PrefValue
PrefMissing == [t |-> "Missing"]
PrefInt(i) == [t |-> "Int", v |-> i]
PrefStr(s) == [t |-> "Str", v |-> s]

\* The store knows "a" and "b"; "c" is not a preference
PrefDefaults ==
    [name \in PrefNames |-> CASE name = "a" -> PrefInt(0)
                              [] name = "b" -> PrefStr("d")
                              [] OTHER -> PrefMissing]

\* The window as the engine opened it; no size request yet, no helper thread
InitialWindowSize == <<800, 600>>
FirstWindows ==
    [ size |-> InitialWindowSize,  \* engine: the size of the window
      chans |-> 0,                 \* reply channels made by SetWindowRect so far
      resizes |-> {},              \* engine: SetWindowSize messages not yet taken
      sleeping |-> {},             \* helper threads asleep, each with the message it will send
      probes |-> {},               \* engine: GetWindowSize messages not yet answered
      replies |-> <<>>,            \* sizes on the receiver of the command in hand
      ignored |-> {} ]             \* channels whose resize the engine ignored

Init ==
    /\ session = None
    /\ pc = "idle"
    /\ last = [ cmd |-> "", arg |-> <<>>, resp |-> Pending, had |-> FALSE, kept |-> TRUE,
                nav |-> 0, got |-> <<>>, timeout |-> 0, queued |-> FALSE, hangup |-> FALSE ]
    /\ sent = <<>>
    /\ load_status_receiver = <<>>
    /\ loading = {}
    /\ navCount = 0
    /\ uuidCount = 0
    /\ engine = NoPressed
    /\ document = FirstDocument
    /\ windows = FirstWindows
    /\ prefs = PrefDefaults
    /\ flow = NoFlow
    /\ dialog = NewDialog

-----------------------------------------------------------------------------
(* NewSession *)

\* ServoCapabilities::new(), as reported back in the session's capabilities
ServoCapabilities ==
    [ browser_name |-> "servo", browser_version |-> "unknown", platform_name |-> "unknown",
      accept_insecure_certs |-> FALSE, set_window_rect |-> TRUE ]

\* A capabilities map: every key the handler reads, absent (None) or present
NoCaps ==
    [ pageLoadStrategy |-> None, strictFileInteractability |-> None, proxy |-> None,
      timeouts |-> None, acceptInsecureCerts |-> None, unhandledPromptBehavior |-> None ]

NoTimeouts == [script |-> None, pageLoad |-> None, implicit |-> None]

\* The capabilities match_browser may hand back for a request
RequestedCaps ==
    { NoCaps,
      [NoCaps EXCEPT !.pageLoadStrategy = Some(JStr("eager")),
                     !.strictFileInteractability = Some(JBool(TRUE)),
                     !.unhandledPromptBehavior = Some(JStr("accept")),
                     !.timeouts = Some([ script |-> Some(JNull), pageLoad |-> Some(JNum(50)),
                                         implicit |-> Some(JNum(7)) ])],
      [NoCaps EXCEPT !.proxy = Some(JObject(<<<<"proxyType", JStr("direct")>>>>)),
                     !.acceptInsecureCerts = Some(JBool(TRUE))] }

\* The outcomes of NewSessionParameters: a legacy request, or match_browser's result
\* (an error of capability validation, no match, or the matched capabilities)
MatchErrors == {"InvalidArgument"}
Processings ==
    {[kind |-> "legacy", caps |-> NoCaps, error |-> ""]}
      \cup {[kind |-> "error", caps |-> NoCaps, error |-> e] : e \in MatchErrors}
      \cup {[kind |-> "nomatch", caps |-> NoCaps, error |-> ""]}
      \cup {[kind |-> "match", caps |-> c, error |-> ""] : c \in RequestedCaps}

\* focus_top_level_browsing_context_id: polls every 20 ms for 30 s
FocusInterval == 20
FocusBudget == 30000
FocusIterations == FocusBudget \div FocusInterval

\* A loop that makes one iteration more
FocusExhaustedLate(polls) == polls >= FocusIterations + 1
\* `for _ in 0..iterations`: the loop ends after that many polls
FocusExhausted(polls) == polls >= FocusIterations

\* handle_new_session, lines 476-555: the session's fields set from the capabilities
TimeoutsOf(caps) == IF IsSome(caps.timeouts) THEN Unwrap(caps.timeouts) ELSE NoTimeouts

ApplyCapabilities(s, caps) ==
    LET t == TimeoutsOf(caps) IN
    [ s EXCEPT
        !.page_loading_strategy =
            IF IsSome(caps.pageLoadStrategy)
            THEN JsonToString(Unwrap(caps.pageLoadStrategy)) ELSE @,
        !.strict_file_interactability =
            IF IsSome(caps.strictFileInteractability)
            THEN AsBool(Unwrap(caps.strictFileInteractability)) ELSE @,
        !.script_timeout = IF IsSome(t.script) THEN AsU64(Unwrap(t.script)) ELSE @,
        !.load_timeout =
            IF IsSome(t.pageLoad) /\ IsSome(AsU64(Unwrap(t.pageLoad)))
            THEN Unwrap(AsU64(Unwrap(t.pageLoad))) ELSE @,
        !.implicit_wait_timeout =
            IF IsSome(t.implicit) /\ IsSome(AsU64(Unwrap(t.implicit)))
            THEN Unwrap(AsU64(Unwrap(t.implicit))) ELSE @,
        !.unhandled_prompt_behavior =
            IF IsSome(caps.unhandledPromptBehavior)
            THEN JsonToString(Unwrap(caps.unhandledPromptBehavior)) ELSE @ ]

\* handle_new_session, lines 476-574: the capabilities sent back
ProcessedCapabilities(s, caps) ==
    [ pageLoadStrategy |->
          IF IsSome(caps.pageLoadStrategy) THEN Unwrap(caps.pageLoadStrategy)
          ELSE JStr(s.page_loading_strategy),
      strictFileInteractability |->
          IF IsSome(caps.strictFileInteractability) THEN Unwrap(caps.strictFileInteractability)
          ELSE JBool(s.strict_file_interactability),
      proxy |-> IF IsSome(caps.proxy) THEN Unwrap(caps.proxy) ELSE JObject(<<>>),
      timeouts |-> [ script |-> s.script_timeout, pageLoad |-> s.load_timeout,
                     implicit |-> s.implicit_wait_timeout ],
      acceptInsecureCerts |->
          IF IsSome(caps.acceptInsecureCerts) THEN Unwrap(caps.acceptInsecureCerts)
          ELSE JBool(ServoCapabilities.accept_insecure_certs),
      unhandledPromptBehavior |->
          IF IsSome(caps.unhandledPromptBehavior) THEN Unwrap(caps.unhandledPromptBehavior)
          ELSE JStr(s.unhandled_prompt_behavior),
      browserName |-> ServoCapabilities.browser_name,
      browserVersion |-> ServoCapabilities.browser_version,
      platformName |-> ServoCapabilities.platform_name,
      setWindowRect |-> ServoCapabilities.set_window_rect ]

\* handle_new_session, lines 469-574: the session made once the focused top-level
\* browsing context is known, and the response
CreateSession(p, top, uuid) ==
    LET s == ApplyCapabilities(WebDriverSessionNew(uuid, BrowsingContextIdFrom(top), top), p.caps)
    IN [ resp |-> Ok("NewSession", [ sessionId |-> UuidToString(s.id),
                                    capabilities |-> ProcessedCapabilities(s, p.caps) ]),
         session |-> Some(s) ]

\* handle_new_session without the test of self.session (a second session replaces the first)
NewSessionOutcomeUnchecked(sess, p) ==
    IF p.kind = "error" THEN [resp |-> Err(p.error, "capabilities"), polls |-> FALSE]
    ELSE IF p.kind = "nomatch" THEN [resp |-> Ok("Void", <<>>), polls |-> FALSE]
    ELSE [resp |-> Pending, polls |-> TRUE]

\* handle_new_session up to focus_top_level_browsing_context_id: the response of a
\* command that returns before it, or the command goes on to poll the engine
NewSessionOutcome(sess, p) ==
    IF p.kind = "error" THEN [resp |-> Err(p.error, "capabilities"), polls |-> FALSE]
    ELSE IF IsSome(sess)
        THEN [resp |-> Err("UnknownError", "Session already created"), polls |-> FALSE]
    ELSE IF p.kind = "nomatch" THEN [resp |-> Ok("Void", <<>>), polls |-> FALSE]
    ELSE [resp |-> Pending, polls |-> TRUE]

\* handle_new_session up to the first receiver.recv() of the focus loop; nulls counts
\* the polls answered with None
HandleNewSession ==
    /\ pc = "idle"
    /\ \E p \in Processings :
         LET o == NewSessionOutcome(session, p)
             arg == [kind |-> p.kind, caps |-> p.caps, error |-> p.error, nulls |-> 0]
         IN IF o.polls
            THEN /\ uuidCount < MaxUuid
                 /\ last' = Started("NewSession", arg)
                 /\ sent' = <<FocusMsg>>
                 /\ pc' = "wait_focus"
                 /\ UNCHANGED session
            ELSE Return("NewSession", arg, o.resp, session, <<>>)
    /\ UNCHANGED <<uuidCount, flow, dialog>>
    /\ EngineIdle

\* focus_top_level_browsing_context_id from receiver.recv() on, the poll answered with
\* the focused top-level browsing context: the loop returns it and handle_new_session
\* makes the session
FocusReplied ==
    /\ pc = "wait_focus"
    /\ \E top \in TopLevelIds :
         LET o == CreateSession(last.arg, top, NewUuid(uuidCount)) IN
         /\ last' = [last EXCEPT !.resp = o.resp, !.kept = (o.session = session)]
         /\ session' = o.session
         /\ uuidCount' = uuidCount + 1
         /\ engine' = NoPressed
         /\ pc' = "idle"
         /\ UNCHANGED sent
    /\ UNCHANGED <<flow, dialog, load_status_receiver, loading, navCount, windows, prefs, document>>

\* focus_top_level_browsing_context_id from receiver.recv() on, the poll answered with
\* None: the Handler sleeps and sends the next poll, or gives up after the last one. The
\* Handler keeps `sender` itself, so a poll the engine drops leaves it in recv()
FocusNoneReplied ==
    /\ pc = "wait_focus"
    /\ IF FocusExhausted(Len(sent))
       THEN /\ last' = [last EXCEPT !.resp = Err("Timeout", "Failed to get window handle"),
                                    !.arg.nulls = Len(sent)]
            /\ pc' = "idle"
            /\ UNCHANGED sent
       ELSE /\ sent' = Append(sent, FocusMsg)
            /\ last' = [last EXCEPT !.arg.nulls = Len(sent)]
            /\ UNCHANGED pc
    /\ UNCHANGED <<session, uuidCount, engine>>
    /\ UNCHANGED <<flow, dialog, load_status_receiver, loading, navCount, windows, prefs, document>>

-----------------------------------------------------------------------------
(* DeleteSession, teardown_session, Status, the gate and the `_` arm *)

\* A DeleteSession that answers and keeps the session
DeleteSessionKeeps(sess) == sess
\* handle_delete_session, line 593, and teardown_session, line 1792
SessionDropped(sess) == None

HandleDeleteSession ==
    /\ pc = "idle"
    /\ Admitted("DeleteSession", session)
    /\ Return("DeleteSession", <<>>, Ok("DeleteSession", <<>>), SessionDropped(session), <<>>)
    /\ UNCHANGED <<uuidCount, flow, dialog>>
    /\ EngineIdle

\* WebDriverHandler::teardown_session, called by the HTTP server between commands
\* (it returns nothing: the record keeps a Void for it)
TeardownSession ==
    /\ pc = "idle"
    /\ Return("teardown_session", <<>>, Ok("Void", <<>>), SessionDropped(session), <<>>)
    /\ UNCHANGED <<uuidCount, flow, dialog>>
    /\ EngineIdle

\* A status that reports ready whether or not a session exists
StatusValueAlwaysReady(sess) == [ready |-> TRUE, message |-> "Ready for a new session"]
\* handle_status
StatusValue(sess) ==
    IF ~IsSome(sess) THEN [ready |-> TRUE, message |-> "Ready for a new session"]
    ELSE [ready |-> FALSE, message |-> "Not ready for a new session"]

HandleStatus ==
    /\ pc = "idle"
    /\ Return("Status", <<>>, Ok("Value", StatusValue(session)), session, <<>>)
    /\ UNCHANGED <<uuidCount, flow, dialog>>
    /\ EngineIdle

\* handle_command, line 1709: self.session()? fails before any handler runs
RejectedNoSession ==
    /\ pc = "idle"
    /\ \E c \in Commands :
         /\ ~Admitted(c, session)
         /\ Return(c, <<>>, SessionError, session, <<>>)
    /\ UNCHANGED <<uuidCount, flow, dialog>>
    /\ EngineIdle

\* handle_command, the `_` arm: the message ends with the Debug text of the command,
\* for these variants without parameters their name
HandleUnimplemented ==
    /\ pc = "idle"
    /\ \E c \in Unhandled :
         /\ Admitted(c, session)
         /\ Return(c, <<>>, Err("UnsupportedOperation", "Command not implemented: " \o c),
                   session, <<>>)
    /\ UNCHANGED <<uuidCount, flow, dialog>>
    /\ EngineIdle

-----------------------------------------------------------------------------
(* Get, Refresh and wait_for_load *)

\* The text of a URL: its scheme (empty when the text has none) and the rest
Urls == { [scheme |-> "http", rest |-> "//example.invalid/"],
          [scheme |-> "", rest |-> "::not a url::"] }

\* ServoUrl::parse, with no base URL: only an absolute URL parses
ServoUrlParse(text) == IF text.scheme # "" THEN Some(text) ELSE None

\* A Get that sends before it looks at the URL
GetRejectsLate(text) == FALSE
\* handle_get, lines 633-641: whether the request is refused before anything is sent
GetRejects(text) == ~IsSome(ServoUrlParse(text))

\* wait_for_load, line 666: the deadline of the select
WaitTimeoutZero(sess) == 0
WaitTimeout(sess) == Unwrap(sess).load_timeout

\* Sends a navigation message and enters wait_for_load
Navigate(cmd, arg, m) ==
    /\ navCount < MaxNav
    /\ last' = [Started(cmd, arg) EXCEPT !.nav = navCount + 1,
                                        !.timeout = WaitTimeout(session)]
    /\ sent' = <<m>>
    /\ loading' = loading \cup {navCount + 1}
    /\ navCount' = navCount + 1
    /\ pc' = "wait_load"
    /\ UNCHANGED <<session, load_status_receiver, uuidCount, flow, dialog, engine, document, windows, prefs>>

HandleGet ==
    /\ pc = "idle"
    /\ Admitted("Get", session)
    /\ \E text \in Urls :
         IF GetRejects(text)
         THEN /\ Return("Get", text, Err("InvalidArgument", "Invalid URL"), session, <<>>)
              /\ UNCHANGED <<uuidCount, flow, dialog>>
              /\ EngineIdle
         ELSE Navigate("Get", text,
                       LoadUrlMsg(Unwrap(session).top_level_browsing_context_id, text))

HandleRefresh ==
    /\ pc = "idle"
    /\ Admitted("Refresh", session)
    /\ Navigate("Refresh", <<>>, RefreshMsg(Unwrap(session).top_level_browsing_context_id))

\* The engine finishes navigation n, whose document replaces the one before it, and
\* sends its LoadStatus on the sender it was given;
\* the router (Handler::new, line 400) forwards it to load_status_receiver
LoadStatusForwarded ==
    /\ \E n \in loading :
         /\ loading' = loading \ {n}
         /\ load_status_receiver' = Append(load_status_receiver, n)
         /\ document' = [document EXCEPT !.gen = n]
    /\ UNCHANGED <<session, pc, last, sent, navCount, windows, prefs, uuidCount, flow, dialog, engine>>

\* wait_for_load, line 668: a load status is received
WaitForLoadReceived ==
    /\ pc = "wait_load"
    /\ load_status_receiver # <<>>
    /\ last' = [last EXCEPT !.resp = Ok("Void", <<>>),
                             !.got = <<Head(load_status_receiver)>>]
    /\ load_status_receiver' = Tail(load_status_receiver)
    /\ pc' = "idle"
    /\ UNCHANGED <<session, sent, loading, navCount, windows, prefs, uuidCount, flow, dialog, engine, document>>

\* A deadline that takes the navigation back from the engine
WaitForLoadTimedOutRecalls ==
    /\ pc = "wait_load"
    /\ load_status_receiver = <<>> \/ last.timeout = 0
    /\ last' = [last EXCEPT !.resp = Err("Timeout", "Load timed out"),
                             !.queued = (load_status_receiver # <<>>)]
    /\ loading' = loading \ {last.nav}
    /\ pc' = "idle"
    /\ UNCHANGED <<session, sent, load_status_receiver, navCount, windows, prefs, uuidCount, flow, dialog, engine, document>>

\* wait_for_load, line 669: the deadline passes. A select with a status already there
\* returns at once, so the deadline is reached with none there, or is reached at entry
WaitForLoadTimedOut ==
    /\ pc = "wait_load"
    /\ load_status_receiver = <<>> \/ last.timeout = 0
    /\ last' = [last EXCEPT !.resp = Err("Timeout", "Load timed out"),
                             !.queued = (load_status_receiver # <<>>)]
    /\ pc' = "idle"
    /\ UNCHANGED <<session, sent, load_status_receiver, loading, navCount, windows, prefs, uuidCount, flow, dialog, engine,
                   document>>

-----------------------------------------------------------------------------
(* GetTitle: a script command and its reply *)

Titles == {"t1", "t2"}

\* top_level_script_command
TopLevelScriptCommand(sess, cmd) ==
    ScriptCommandMsg(BrowsingContextIdFrom(Unwrap(sess).top_level_browsing_context_id), cmd)

\* browsing_context_script_command
BrowsingContextScriptCommand(sess, cmd) ==
    ScriptCommandMsg(Unwrap(sess).browsing_context_id, cmd)

HandleTitle ==
    /\ pc = "idle"
    /\ Admitted("GetTitle", session)
    /\ last' = Started("GetTitle", <<>>)
    /\ sent' = <<TopLevelScriptCommand(session, "GetTitle")>>
    /\ pc' = "wait_reply"
    /\ UNCHANGED <<session, uuidCount, flow, dialog>>
    /\ EngineIdle

\* handle_title, line 821: receiver.recv().unwrap() with the reply there
TitleReplied ==
    /\ pc = "wait_reply"
    /\ last.cmd = "GetTitle"
    /\ \E t \in Titles : last' = [last EXCEPT !.resp = Ok("Value", t)]
    /\ pc' = "idle"
    /\ UNCHANGED <<session, sent, uuidCount, flow, dialog>>
    /\ EngineIdle

\* receiver.recv().unwrap() when the engine dropped the sender without a reply:
\* recv returns Err and unwrap panics on the Handler thread. The sender of a script
\* command and of a screenshot request is moved into the message
ReplyHangup ==
    /\ pc \in {"wait_reply", "wait_shot"}
    /\ last' = [last EXCEPT !.resp = Panicked, !.hangup = TRUE]
    /\ pc' = "panicked"
    /\ UNCHANGED <<session, sent, uuidCount, flow, dialog>>
    /\ EngineIdle

-----------------------------------------------------------------------------
(* SetTimeouts *)

\* TimeoutsParameters: script is Option<Option<u64>>, the others Option<u64>
TimeoutsParameters ==
    { [script |-> None, page_load |-> Some(0), implicit |-> None],
      [script |-> None, page_load |-> Some(50), implicit |-> None],
      [script |-> Some(None), page_load |-> None, implicit |-> Some(7)],
      [script |-> Some(Some(5)), page_load |-> None, implicit |-> None] }

\* An update that puts the defaults back in the fields the parameters leave out
SetTimeoutsResetting(s, p) ==
    [ s EXCEPT !.script_timeout =
                   IF IsSome(p.script) THEN Unwrap(p.script) ELSE Some(DefaultScriptTimeout),
               !.load_timeout =
                   IF IsSome(p.page_load) THEN Unwrap(p.page_load) ELSE DefaultLoadTimeout,
               !.implicit_wait_timeout =
                   IF IsSome(p.implicit) THEN Unwrap(p.implicit) ELSE DefaultImplicitWait ]
\* handle_set_timeouts, lines 1325-1333
SetTimeouts(s, p) ==
    [ s EXCEPT !.script_timeout = IF IsSome(p.script) THEN Unwrap(p.script) ELSE @,
               !.load_timeout = IF IsSome(p.page_load) THEN Unwrap(p.page_load) ELSE @,
               !.implicit_wait_timeout = IF IsSome(p.implicit) THEN Unwrap(p.implicit) ELSE @ ]

HandleSetTimeouts ==
    /\ pc = "idle"
    /\ Admitted("SetTimeouts", session)
    /\ \E p \in TimeoutsParameters :
         Return("SetTimeouts", p, Ok("Void", <<>>), Some(SetTimeouts(Unwrap(session), p)), <<>>)
    /\ UNCHANGED <<uuidCount, flow, dialog>>
    /\ EngineIdle

\* handle_get_timeouts, lines 1307-1311: TimeoutsResponse
TimeoutsResponse(s) ==
    [script |-> s.script_timeout, page_load |-> s.load_timeout,
     implicit |-> s.implicit_wait_timeout]

HandleGetTimeouts ==
    /\ pc = "idle"
    /\ Admitted("GetTimeouts", session)
    /\ Return("GetTimeouts", <<>>, Ok("Timeouts", TimeoutsResponse(Unwrap(session))),
              session, <<>>)
    /\ UNCHANGED <<uuidCount, flow, dialog>>
    /\ EngineIdle

-----------------------------------------------------------------------------
(* Input sources and the action dispatcher (crate::actions) *)

\* Input source ids: the ids a client names, and the Uuid text of an element click
SourceK == <<"src", 1>>
SourceP == <<"src", 2>>

\* Raw key values: a letter, and the code points of the left and the right Shift key
RawA == "a"
RawShiftLeft == "E008"
RawShiftRight == "E050"

\* Key normalisation: the two Shift code points are the one key Shift
Normalize(raw) == IF raw \in {RawShiftLeft, RawShiftRight} THEN "Shift" ELSE raw

\* The engine's page: the viewport, and where the in-view centre of an element lies
Viewport == [width |-> 2, height |-> 2]
Elements == {"e1", "e2"}
ElementCenter(e) == IF e = "e1" THEN [x |-> 1, y |-> 1] ELSE [x |-> 5, y |-> 5]

\* Action items
Pause == [type |-> "pause"]
KeyDown(v) == [type |-> "keyDown", value |-> v]
KeyUp(v) == [type |-> "keyUp", value |-> v]
PointerDown(b) == [type |-> "pointerDown", button |-> b]
PointerUp(b) == [type |-> "pointerUp", button |-> b]
PointerMove(origin, x, y) == [type |-> "pointerMove", origin |-> origin, x |-> x, y |-> y]
OriginViewport == [kind |-> "viewport", element |-> ""]
OriginPointer == [kind |-> "pointer", element |-> ""]
OriginElement(e) == [kind |-> "element", element |-> e]

\* ActionSequence: an id, a type (with the pointer subtype) and the per-tick actions
KeySequence(id, items) ==
    [id |-> id, type |-> "key", pointer_type |-> "", actions |-> items]
PointerSequence(id, subtype, items) ==
    [id |-> id, type |-> "pointer", pointer_type |-> subtype, actions |-> items]

\* InputSourceState
NullState == [kind |-> "Null"]
KeyInputStateNew == [kind |-> "Key", pressed |-> {}]
PointerInputStateNew(subtype) ==
    [kind |-> "Pointer", subtype |-> subtype, pressed |-> {}, x |-> 0, y |-> 0]

FreshState(seq) ==
    CASE seq.type = "key" -> KeyInputStateNew
      [] seq.type = "pointer" -> PointerInputStateNew(seq.pointer_type)
      [] OTHER -> NullState

\* Events to the engine
KeyboardActionMsg(ctx, state, key) ==
    [msg |-> "KeyboardAction", ctx |-> ctx, state |-> state, key |-> key]
MouseButtonActionMsg(type, button, x, y) ==
    [msg |-> "MouseButtonAction", type |-> type, button |-> button, x |-> x, y |-> y]
MouseMoveActionMsg(x, y) == [msg |-> "MouseMoveAction", x |-> x, y |-> y]

\* A dispatch in progress: the session, the engine's held keys and buttons, the
\* messages sent so far, the first error ("" while there is none), and the actions the
\* engine is still handed up to the one it fails at (0: it fails at none)
Machine(s, e) == [s |-> s, e |-> e, out |-> <<>>, err |-> "", fail |-> 0]

\* First reference of a source: a fresh state of the sequence's declared kind
EnsureSource(m, seq) ==
    IF seq.id \in DOMAIN m.s.input_state_table THEN m
    ELSE [m EXCEPT !.s.input_state_table = @ @@ (seq.id :> FreshState(seq))]

\* The reversal appended to the input cancel list: the release of the key or button
CancelKey(id, v) == KeySequence(id, <<KeyUp(v)>>)
CancelButton(id, subtype, b) == PointerSequence(id, subtype, <<PointerUp(b)>>)

DispatchKeyDownAction(m, id, a) ==
    [m EXCEPT !.s.input_state_table[id].pressed = @ \cup {Normalize(a.value)},
              !.s.input_cancel_list = Append(@, CancelKey(id, a.value)),
              !.e.keys = @ \cup {Normalize(a.value)},
              !.out = Append(@, KeyboardActionMsg(m.s.browsing_context_id, "down",
                                                  Normalize(a.value)))]

DispatchKeyUpAction(m, id, a) ==
    [m EXCEPT !.s.input_state_table[id].pressed = @ \ {Normalize(a.value)},
              !.s.input_cancel_list = Append(@, CancelKey(id, a.value)),
              !.e.keys = @ \ {Normalize(a.value)},
              !.out = Append(@, KeyboardActionMsg(m.s.browsing_context_id, "up",
                                                  Normalize(a.value)))]

DispatchPointerDownAction(m, id, a) ==
    LET st == m.s.input_state_table[id] IN
    [m EXCEPT !.s.input_state_table[id].pressed = @ \cup {a.button},
              !.s.input_cancel_list = Append(@, CancelButton(id, st.subtype, a.button)),
              !.e.buttons = @ \cup {a.button},
              !.out = Append(@, MouseButtonActionMsg("down", a.button, st.x, st.y))]

DispatchPointerUpAction(m, id, a) ==
    LET st == m.s.input_state_table[id] IN
    [m EXCEPT !.s.input_state_table[id].pressed = @ \ {a.button},
              !.s.input_cancel_list = Append(@, CancelButton(id, st.subtype, a.button)),
              !.e.buttons = @ \ {a.button},
              !.out = Append(@, MouseButtonActionMsg("up", a.button, st.x, st.y))]

\* Where a pointer move ends: relative to the viewport, the pointer or an element's centre
MoveTarget(st, a) ==
    CASE a.origin.kind = "viewport" -> [x |-> a.x, y |-> a.y]
      [] a.origin.kind = "pointer" -> [x |-> st.x + a.x, y |-> st.y + a.y]
      [] OTHER -> [ x |-> ElementCenter(a.origin.element).x + a.x,
                    y |-> ElementCenter(a.origin.element).y + a.y ]

OutOfBounds(pt) ==
    pt.x < 0 \/ pt.x > Viewport.width \/ pt.y < 0 \/ pt.y > Viewport.height

DispatchPointerMoveAction(m, id, a) ==
    LET pt == MoveTarget(m.s.input_state_table[id], a) IN
    IF OutOfBounds(pt) THEN [m EXCEPT !.err = "MoveTargetOutOfBounds"]
    ELSE [m EXCEPT !.s.input_state_table[id].x = pt.x,
                   !.s.input_state_table[id].y = pt.y,
                   !.out = Append(@, MouseMoveActionMsg(pt.x, pt.y))]

DispatchAction(m, seq, a) ==
    CASE a.type = "keyDown" -> DispatchKeyDownAction(m, seq.id, a)
      [] a.type = "keyUp" -> DispatchKeyUpAction(m, seq.id, a)
      [] a.type = "pointerDown" -> DispatchPointerDownAction(m, seq.id, a)
      [] a.type = "pointerUp" -> DispatchPointerUpAction(m, seq.id, a)
      [] a.type = "pointerMove" -> DispatchPointerMoveAction(m, seq.id, a)
      [] OTHER -> m

RECURSIVE EnsureSources(_, _)
EnsureSources(m, seqs) ==
    IF seqs = <<>> THEN m ELSE EnsureSources(EnsureSource(m, Head(seqs)), Tail(seqs))

RECURSIVE MaxLength(_)
MaxLength(seqs) ==
    IF seqs = <<>> THEN 0
    ELSE LET n == Len(Head(seqs).actions)
             r == MaxLength(Tail(seqs))
         IN IF n > r THEN n ELSE r

\* One action handed to the engine: the engine fails at it and nothing of it is done
\* (the spec names no status for that failure), or it is carried out. A pause is not
\* handed to the engine
DispatchOrFail(m, seq, a) ==
    IF a.type = "pause" THEN m
    ELSE IF m.fail = 1 THEN [m EXCEPT !.err = "UnknownError"]
    ELSE DispatchAction([m EXCEPT !.fail = IF @ = 0 THEN 0 ELSE @ - 1], seq, a)

\* Tick t, sequences i..Len(seqs): each source's action of the tick, in list order;
\* the first error ends the dispatch and what was done stays done
RECURSIVE DispatchTick(_, _, _, _)
DispatchTick(m, seqs, t, i) ==
    IF m.err # "" \/ i > Len(seqs) THEN m
    ELSE IF t > Len(seqs[i].actions) THEN DispatchTick(m, seqs, t, i + 1)
    ELSE DispatchTick(DispatchOrFail(m, seqs[i], seqs[i].actions[t]), seqs, t, i + 1)

RECURSIVE DispatchTicks(_, _, _)
DispatchTicks(m, seqs, t) ==
    IF m.err # "" \/ t > MaxLength(seqs) THEN m
    ELSE DispatchTicks(DispatchTick(m, seqs, t, 1), seqs, t + 1)

\* dispatch_actions
DispatchActions(m, seqs) == DispatchTicks(EnsureSources(m, seqs), seqs, 1)

\* The action lists a client sends
ActionLists ==
    { <<KeySequence(SourceK, <<KeyDown(RawA)>>)>>,
      <<KeySequence(SourceK, <<KeyDown(RawShiftLeft), Pause, KeyUp(RawShiftRight)>>)>>,
      <<KeySequence(SourceK, <<KeyUp(RawA)>>)>>,
      <<PointerSequence(SourceP, "mouse",
            <<PointerMove(OriginViewport, 0, 0), PointerMove(OriginPointer, 1, 1),
              PointerDown(1), PointerUp(1)>>)>>,
      <<PointerSequence(SourceP, "mouse", <<PointerDown(0)>>)>>,
      <<KeySequence(SourceK, <<KeyDown(RawShiftLeft)>>),
        PointerSequence(SourceP, "mouse",
            <<PointerDown(1), PointerMove(OriginElement("e2"), 0, 0), PointerUp(1)>>)>> }

\* The response of a command that ends with a dispatch
DispatchResponse(m) == IF m.err = "" THEN Ok("Void", <<>>) ELSE Err(m.err, "")

\* handle_perform_actions
HandlePerformActions ==
    /\ pc = "idle"
    /\ Admitted("PerformActions", session)
    /\ \E actions \in ActionLists :
         LET m == DispatchActions(Machine(Unwrap(session), engine), actions) IN
         /\ Len(m.s.input_cancel_list) <= MaxCancel
         /\ Return("PerformActions", actions, DispatchResponse(m), Some(m.s), m.out)
         /\ engine' = m.e
    /\ UNCHANGED <<load_status_receiver, loading, navCount, windows, prefs, uuidCount, flow, dialog, document>>

\* Vec::reverse
RECURSIVE Reverse(_)
Reverse(q) == IF q = <<>> THEN <<>> ELSE Append(Reverse(Tail(q)), Head(q))

\* handle_release_actions, lines 1363-1369: the list is taken out of the session
\* (reversed, an empty one left in its place) and dispatched. fail is the place at which
\* the engine fails: 0 is an engine that carries out every action, k one that fails at
\* the k-th action it is handed
ReleaseReplay(s, e, fail) ==
    DispatchActions([Machine([s EXCEPT !.input_cancel_list = <<>>], e) EXCEPT !.fail = fail],
                    Reverse(s.input_cancel_list))

\* A ReleaseActions that clears the table whatever the replay did
ReleaseOutcomeClears(s, e, fail) ==
    [ReleaseReplay(s, e, fail) EXCEPT !.s.input_state_table = EmptyTable]
\* handle_release_actions, lines 1369-1376: a failed replay returns its error, a
\* successful one clears the table
ReleaseOutcome(s, e, fail) ==
    LET m == ReleaseReplay(s, e, fail) IN
    IF m.err # "" THEN m ELSE [m EXCEPT !.s.input_state_table = EmptyTable]

HandleReleaseActions ==
    /\ pc = "idle"
    /\ Admitted("ReleaseActions", session)
    /\ \E fail \in 0..MaxFail :
         LET m == ReleaseOutcome(Unwrap(session), engine, fail) IN
         /\ Return("ReleaseActions", <<>>, DispatchResponse(m), Some(m.s), m.out)
         /\ engine' = m.e
    /\ UNCHANGED <<load_status_receiver, loading, navCount, windows, prefs, uuidCount, flow, dialog, document>>

\* handle_element_click, lines 1485-1490: the script command is sent
HandleElementClick ==
    /\ pc = "idle"
    /\ Admitted("ElementClick", session)
    /\ \E e \in Elements :
         /\ last' = Started("ElementClick", e)
         /\ sent' = <<BrowsingContextScriptCommand(session, "ElementClick")>>
    /\ pc' = "wait_reply"
    /\ UNCHANGED <<session, uuidCount, flow, dialog>>
    /\ EngineIdle

\* What the engine may answer: an error, no element, or the element to click
ClickReplies ==
    {[ok |-> FALSE, status |-> "StaleElementReference", element |-> None],
     [ok |-> TRUE, status |-> "", element |-> None]}
      \cup {[ok |-> TRUE, status |-> "", element |-> Some(e)] : e \in Elements}

\* handle_element_click, lines 1495-1541: the synthetic click on element_id
ClickElement(s, e, id, element_id) ==
    LET m0 == Machine([s EXCEPT !.input_state_table =
                          @ @@ (id :> PointerInputStateNew("mouse"))], e)
        m1 == DispatchPointerMoveAction(m0, id, PointerMove(OriginElement(element_id), 0, 0))
        m2 == DispatchPointerDownAction(m1, id, PointerDown(1))
        m3 == DispatchPointerUpAction(m2, id, PointerUp(1))
    IN IF m1.err # "" THEN m1
       ELSE [m3 EXCEPT !.s.input_state_table =
                [k \in DOMAIN @ \ {id} |-> @[k]]]

\* handle_element_click, lines 1492-1547: the reply is there
ElementClickReplied ==
    /\ pc = "wait_reply"
    /\ last.cmd = "ElementClick"
    /\ \E r \in ClickReplies :
         IF r.ok /\ IsSome(r.element)
         THEN LET m == ClickElement(Unwrap(session), engine,
                                    UuidToString(NewUuid(uuidCount)), Unwrap(r.element)) IN
              /\ uuidCount < MaxUuid
              /\ Len(m.s.input_cancel_list) <= MaxCancel
              /\ last' = [last EXCEPT !.resp = DispatchResponse(m),
                                       !.kept = (m.s = Unwrap(session))]
              /\ session' = Some(m.s)
              /\ sent' = sent \o m.out
              /\ engine' = m.e
              /\ uuidCount' = uuidCount + 1
              /\ UNCHANGED <<flow, dialog>>
         ELSE /\ last' = [last EXCEPT !.resp = IF r.ok THEN Ok("Void", <<>>)
                                                ELSE Err(r.status, "")]
              /\ UNCHANGED <<session, sent, engine, uuidCount, flow, dialog>>
    /\ pc' = "idle"
    /\ UNCHANGED <<load_status_receiver, loading, navCount, windows, prefs, document>>

-----------------------------------------------------------------------------
(* ExecuteScript and ExecuteAsyncScript *)

\* A script command that carries arguments besides its reply sender
ScriptCommandWith(ctx, cmd, args) ==
    [msg |-> "ScriptCommand", ctx |-> ctx, cmd |-> cmd, args |-> args]

\* JavascriptCommandParameters::script
ScriptBodies == {"return 1;"}

\* handle_execute_script, line 1389: the function wrapper, called with no arguments
SyncScript(func_body) == "(function() { " \o func_body \o " })()"

\* A wrapper that is always given the timer of the default timeout
AsyncScriptDefaultTimer(script_timeout, func_body) ==
    [ timeout_script |-> Some(DefaultScriptTimeout),
      call |-> "(function(callback) { " \o func_body \o " })(window.webdriverCallback)" ]
\* handle_execute_async_script, lines 1405-1413: the timer the script is given (none when
\* script_timeout is null), and the wrapper called with window.webdriverCallback
AsyncScript(script_timeout, func_body) ==
    [ timeout_script |-> script_timeout,
      call |-> "(function(callback) { " \o func_body \o " })(window.webdriverCallback)" ]

\* WebDriverJSValue, the scalar variants
JSUndefined == [js |-> "Undefined"]
JSNull == [js |-> "Null"]
JSBoolean(b) == [js |-> "Boolean", v |-> b]
JSString(x) == [js |-> "String", v |-> x]

\* impl Serialize for SendableWebDriverJSValue
SerializeJSValue(value) ==
    CASE value.js = "Undefined" -> JNull
      [] value.js = "Null" -> JNull
      [] value.js = "Boolean" -> JBool(value.v)
      [] value.js = "String" -> JStr(value.v)

\* WebDriverJSResult: what the engine may send on the reply channel of a script
JSErrors == {"BrowsingContextNotFound", "JSError", "StaleElementReference", "Timeout",
             "UnknownType"}
JSResults ==
    {[ok |-> TRUE, value |-> v, error |-> ""] : v \in {JSUndefined, JSNull, JSString("s")}}
      \cup {[ok |-> FALSE, value |-> JSNull, error |-> e] : e \in JSErrors}

\* A post-processor that reports a value of unknown type as a script error
PostprocessJsResultBlurred(result) ==
    CASE result.ok -> Ok("Value", SerializeJSValue(result.value))
      [] result.error = "StaleElementReference" -> Err("StaleElementReference", "Stale element")
      [] result.error = "Timeout" -> Err("Timeout", "")
      [] OTHER -> Err("JavascriptError", "JS evaluation raised an exception")
\* postprocess_js_result
PostprocessJsResult(result) ==
    CASE result.ok -> Ok("Value", SerializeJSValue(result.value))
      [] result.error = "BrowsingContextNotFound" ->
            Err("JavascriptError", "Pipeline id not found in browsing context")
      [] result.error = "JSError" -> Err("JavascriptError", "JS evaluation raised an exception")
      [] result.error = "StaleElementReference" -> Err("StaleElementReference", "Stale element")
      [] result.error = "Timeout" -> Err("Timeout", "")
      [] result.error = "UnknownType" -> Err("UnsupportedOperation", "Unsupported return type")

\* Sends one script command and waits for its reply: receiver.recv().unwrap()
SendAndWait(cmd, arg, m) ==
    /\ last' = Started(cmd, arg)
    /\ sent' = <<m>>
    /\ pc' = "wait_reply"
    /\ UNCHANGED <<session, uuidCount, flow, dialog>>
    /\ EngineIdle

\* The reply of the command in hand is there and gives the response resp
Replied(resp) ==
    /\ last' = [last EXCEPT !.resp = resp]
    /\ pc' = "idle"
    /\ UNCHANGED <<session, sent, uuidCount, flow, dialog>>
    /\ EngineIdle

HandleExecuteScript ==
    /\ pc = "idle"
    /\ Admitted("ExecuteScript", session)
    /\ \E func_body \in ScriptBodies :
         SendAndWait("ExecuteScript", [script |-> func_body, result |-> None],
                     ScriptCommandWith(Unwrap(session).browsing_context_id, "ExecuteScript",
                                       [script |-> SyncScript(func_body)]))

HandleExecuteAsyncScript ==
    /\ pc = "idle"
    /\ Admitted("ExecuteAsyncScript", session)
    /\ \E func_body \in ScriptBodies :
         SendAndWait("ExecuteAsyncScript", [script |-> func_body, result |-> None],
                     ScriptCommandWith(Unwrap(session).browsing_context_id,
                                       "ExecuteAsyncScript",
                                       [script |-> AsyncScript(Unwrap(session).script_timeout,
                                                               func_body)]))

\* handle_execute_script line 1394, handle_execute_async_script line 1418: the reply is
\* there; nothing on the Handler's side ends the wait before it is
ScriptReplied ==
    /\ pc = "wait_reply"
    /\ last.cmd \in {"ExecuteScript", "ExecuteAsyncScript"}
    /\ \E result \in JSResults :
         /\ last' = [last EXCEPT !.resp = PostprocessJsResult(result),
                                 !.arg.result = Some(result)]
         /\ pc' = "idle"
         /\ UNCHANGED <<session, sent, uuidCount, flow, dialog>>
         /\ EngineIdle

-----------------------------------------------------------------------------
(* FindElement, FindElements, FindElementElement, FindElementElements *)

\* LocatorStrategy
LocatorStrategies == {"CSSSelector", "LinkText", "PartialLinkText", "TagName", "XPath"}

FindCommands == {"FindElement", "FindElements", "FindElementElement", "FindElementElements"}
FromElement == {"FindElementElement", "FindElementElements"}
FindsMany == {"FindElements", "FindElementElements"}

\* LocatorParameters (value is one fixed selector text), and the element of the
\* element-scoped commands (None for the other two)
LocatorInputs ==
    {[cmd |-> c, using |-> u, value |-> "a", element |-> None] :
        c \in FindCommands \ FromElement, u \in LocatorStrategies}
      \cup {[cmd |-> c, using |-> u, value |-> "a", element |-> Some("e1")] :
                c \in FromElement, u \in LocatorStrategies}

\* A match without the TagName arm
LocatorAcceptedNarrow(using) == using \in {"CSSSelector", "LinkText", "PartialLinkText"}
\* The strategies the four `match parameters.using` have an arm for
LocatorAccepted(using) == using \in {"CSSSelector", "LinkText", "PartialLinkText", "TagName"}

\* The WebDriverScriptCommand variant of the arm: the command's name and CSS, LinkText
\* or TagName
LocatorVariant(cmd, using) ==
    cmd \o (CASE using = "CSSSelector" -> "CSS"
              [] using \in {"LinkText", "PartialLinkText"} -> "LinkText"
              [] using = "TagName" -> "TagName")

\* The arguments of the variant: the value, the element of an element-scoped command,
\* and for LinkText the flag parameters.using == LocatorStrategy::PartialLinkText
LocatorArgs(p) ==
    [ value |-> p.value,
      element |-> p.element,
      partial |-> IF p.using \in {"LinkText", "PartialLinkText"}
                  THEN Some(p.using = "PartialLinkText") ELSE None ]

\* JSON of WebElement(x), and of a list of values
JElement(x) == [t |-> "element", v |-> x]
JArray(q) == [t |-> "array", v |-> q]

\* What the engine may answer: for one element Result<Option<String>, ErrorStatus>, for
\* many Result<Vec<String>, ErrorStatus>
FindReplies(cmd) ==
    {[ok |-> FALSE, status |-> "InvalidSelector", found |-> <<>>]}
      \cup {[ok |-> TRUE, status |-> "", found |-> q] :
                q \in IF cmd \in FindsMany THEN {<<>>, <<"e1">>, <<"e1", "e2">>}
                                            ELSE {None, Some("e1")}}

\* The response to a reply, lines 879-887 and 987-998
FindResponse(cmd, r) ==
    IF ~r.ok THEN Err(r.status, "")
    ELSE IF cmd \in FindsMany
        THEN Ok("Value", JArray([i \in DOMAIN r.found |-> JElement(r.found[i])]))
    ELSE Ok("Value", IF IsSome(r.found) THEN JElement(Unwrap(r.found)) ELSE JNull)

\* handle_find_element, handle_find_elements, handle_find_element_element,
\* handle_find_elements_from_element up to the send
HandleFind ==
    /\ pc = "idle"
    /\ \E p \in LocatorInputs :
         /\ Admitted(p.cmd, session)
         /\ IF LocatorAccepted(p.using)
            THEN SendAndWait(p.cmd, p,
                             ScriptCommandWith(Unwrap(session).browsing_context_id,
                                               LocatorVariant(p.cmd, p.using), LocatorArgs(p)))
            ELSE /\ Return(p.cmd, p, Err("UnsupportedOperation", "Unsupported locator strategy"),
                           session, <<>>)
                 /\ UNCHANGED <<uuidCount, flow, dialog>>
                 /\ EngineIdle

\* The four handlers from receiver.recv().unwrap() on
FindReplied ==
    /\ pc = "wait_reply"
    /\ last.cmd \in FindCommands
    /\ \E r \in FindReplies(last.cmd) : Replied(FindResponse(last.cmd, r))

-----------------------------------------------------------------------------
(* GetWindowHandle and GetWindowHandles *)

\* A handle that stays the one of the first session ever created
WindowHandleOfFirst(sess) == UuidToString(NewUuid(0))
\* self.session.as_ref().unwrap().id.to_string()
WindowHandle(sess) == UuidToString(Unwrap(sess).id)

HandleWindowHandle ==
    /\ pc = "idle"
    /\ Admitted("GetWindowHandle", session)
    /\ Return("GetWindowHandle", <<>>, Ok("Value", JStr(WindowHandle(session))), session, <<>>)
    /\ UNCHANGED <<uuidCount, flow, dialog>>
    /\ EngineIdle

HandleWindowHandles ==
    /\ pc = "idle"
    /\ Admitted("GetWindowHandles", session)
    /\ Return("GetWindowHandles", <<>>, Ok("Value", JArray(<<JStr(WindowHandle(session))>>)),
              session, <<>>)
    /\ UNCHANGED <<uuidCount, flow, dialog>>
    /\ EngineIdle

-----------------------------------------------------------------------------
(* GoBack and GoForward *)

MaxTraverse == 1

\* ConstellationMsg::TraverseHistory(top_level_browsing_context_id, direction)
TraverseHistoryMsg(top, direction) ==
    [msg |-> "TraverseHistory", ctx |-> top, direction |-> direction, delta |-> 1]

\* handle_go_back and handle_go_forward: the message is sent and Void returned at once
TraverseHistory(cmd, direction) ==
    /\ document.pending < MaxTraverse
    /\ Return(cmd, <<>>, Ok("Void", <<>>), session,
              <<TraverseHistoryMsg(Unwrap(session).top_level_browsing_context_id, direction)>>)
    /\ document' = [document EXCEPT !.pending = @ + 1]
    /\ UNCHANGED <<load_status_receiver, loading, navCount, windows, prefs, uuidCount, flow, dialog, engine>>

HandleGoBack ==
    /\ pc = "idle"
    /\ Admitted("GoBack", session)
    /\ TraverseHistory("GoBack", "Back")

HandleGoForward ==
    /\ pc = "idle"
    /\ Admitted("GoForward", session)
    /\ TraverseHistory("GoForward", "Forward")

\* The documents the engine has loaded so far
LoadedDocuments == {g \in 0..navCount : g \notin loading}

\* The engine performs a traversal: another loaded document becomes the current one,
\* or the history has no entry in that direction and the document stays
HistoryTraversed ==
    /\ document.pending > 0
    /\ \E g \in LoadedDocuments : document' = [gen |-> g, pending |-> document.pending - 1]
    /\ UNCHANGED <<session, pc, last, sent, load_status_receiver, loading, navCount, windows, prefs, uuidCount, flow, dialog,
                   engine>>

-----------------------------------------------------------------------------
(* SwitchToFrame and SwitchToParentFrame *)

\* WebDriverFrameId
FrameShort(n) == [kind |-> "Short", index |-> n, element |-> ""]
FrameElement(x) == [kind |-> "Element", index |-> 0, element |-> x]
FrameParent == [kind |-> "Parent", index |-> 0, element |-> ""]

\* SwitchToFrameParameters::id
FrameParameters == {None, Some(FrameShort(0)), Some(FrameElement("e1")), Some(FrameElement("e2"))}

\* The engine's browsing contexts: the top-level one, and the one of the frame that the
\* current document holds in its element e1 (e2 is no frame)
FrameContext(gen) == <<"frame", gen>>
LiveContexts(doc, top) == {BrowsingContextIdFrom(top), FrameContext(doc.gen)}

\* What the engine may answer to GetBrowsingContextId(frame_id) in browsing context ctx.
\* The parent of the frame is the top-level browsing context. The top-level one has no
\* parent frame, and what the engine answers there is open: its own id or an error
BrowsingContextIdReplies(frame_id, ctx, doc, top) ==
    CASE frame_id.kind = "Short" -> {[ok |-> FALSE, status |-> "UnsupportedOperation", ctx |-> ctx]}
      [] frame_id.kind = "Parent" /\ ctx # BrowsingContextIdFrom(top) ->
            {[ok |-> TRUE, status |-> "", ctx |-> BrowsingContextIdFrom(top)]}
      [] frame_id.kind = "Parent" ->
            {[ok |-> TRUE, status |-> "", ctx |-> BrowsingContextIdFrom(top)],
             [ok |-> FALSE, status |-> "NoSuchFrame", ctx |-> ctx]}
      [] frame_id.kind = "Element" /\ frame_id.element = "e1" /\ ctx = BrowsingContextIdFrom(top) ->
            {[ok |-> TRUE, status |-> "", ctx |-> FrameContext(doc.gen)]}
      [] OTHER -> {[ok |-> FALSE, status |-> "NoSuchFrame", ctx |-> ctx]}

\* A switch_to_frame that sends a numeric id on to the engine
RejectsFrameIdNever(frame_id) == FALSE
\* switch_to_frame, lines 934-939
RejectsFrameId(frame_id) == frame_id.kind = "Short"

\* switch_to_frame up to the send
SwitchToFrame(cmd, arg, frame_id) ==
    IF RejectsFrameId(frame_id)
    THEN /\ Return(cmd, arg, Err("UnsupportedOperation", "Selecting frame by id not supported"),
                   session, <<>>)
         /\ UNCHANGED <<uuidCount, flow, dialog>>
         /\ EngineIdle
    ELSE SendAndWait(cmd, arg,
                     ScriptCommandWith(Unwrap(session).browsing_context_id,
                                       "GetBrowsingContextId", [frame_id |-> frame_id]))

HandleSwitchToFrame ==
    /\ pc = "idle"
    /\ Admitted("SwitchToFrame", session)
    /\ \E id \in FrameParameters :
         IF ~IsSome(id)
         THEN /\ Return("SwitchToFrame", id, Ok("Void", <<>>),
                        Some([Unwrap(session) EXCEPT !.browsing_context_id =
                                 BrowsingContextIdFrom(Unwrap(session).top_level_browsing_context_id)]),
                        <<>>)
              /\ UNCHANGED <<uuidCount, flow, dialog>>
              /\ EngineIdle
         ELSE SwitchToFrame("SwitchToFrame", id, Unwrap(id))

HandleSwitchToParentFrame ==
    /\ pc = "idle"
    /\ Admitted("SwitchToParentFrame", session)
    /\ SwitchToFrame("SwitchToParentFrame", Some(FrameParent), FrameParent)

\* A switch_to_frame that falls back to the top-level browsing context on an error
SwitchToFrameResets(s, r) ==
    IF r.ok THEN [resp |-> Ok("Void", <<>>), session |-> [s EXCEPT !.browsing_context_id = r.ctx]]
    ELSE [resp |-> Err(r.status, ""),
          session |-> [s EXCEPT !.browsing_context_id =
                                   BrowsingContextIdFrom(s.top_level_browsing_context_id)]]
\* switch_to_frame, lines 945-951
SwitchToFrameResult(s, r) ==
    IF r.ok THEN [resp |-> Ok("Void", <<>>), session |-> [s EXCEPT !.browsing_context_id = r.ctx]]
    ELSE [resp |-> Err(r.status, ""), session |-> s]

\* The reply is there (last.got keeps it). A script command sent to a browsing context that is gone is not
\* delivered (its reply sender is dropped: ReplyHangup)
FrameReplied ==
    /\ pc = "wait_reply"
    /\ last.cmd \in {"SwitchToFrame", "SwitchToParentFrame"}
    /\ LET s == Unwrap(session)
           top == s.top_level_browsing_context_id
       IN /\ sent[1].ctx \in LiveContexts(document, top)
          /\ \E r \in BrowsingContextIdReplies(sent[1].args.frame_id, sent[1].ctx,
                                                document, top) :
                LET o == SwitchToFrameResult(s, r) IN
                /\ last' = [last EXCEPT !.resp = o.resp, !.kept = (o.session = s),
                                        !.got = <<r>>]
                /\ session' = Some(o.session)
    /\ pc' = "idle"
    /\ UNCHANGED <<sent, uuidCount, flow, dialog>>
    /\ EngineIdle

-----------------------------------------------------------------------------
(* TakeScreenshot and TakeElementScreenshot *)

ScreenshotInterval == 1000
ScreenshotBudget == 30000
\* take_screenshot, line 1554
ScreenshotIterations == ScreenshotBudget \div ScreenshotInterval

\* WebDriverCommandMsg::TakeScreenshot(top, rect, sender): the sender is the one of the
\* channel made in iteration i (line 1557)
TakeScreenshotMsg(top, rect, i) ==
    [msg |-> "TakeScreenshot", ctx |-> top, rect |-> rect, sender |-> <<"chan", i>>]

\* A loop that makes one iteration more
ScreenshotExhaustedLate(polls) == polls >= ScreenshotIterations + 1
\* `for _ in 0..iterations`: the loop ends after that many requests
ScreenshotExhausted(polls) == polls >= ScreenshotIterations

\* The framebuffers of the compositor (always PixelFormat::RGB8, line 1586)
Images == {[format |-> "RGB8", width |-> 2, height |-> 1]}

\* RgbImage::from_raw, write_to(Png) and the base64 encoding, lines 1593-1599
EncodePng(img) == <<"png", img.width, img.height>>
EncodeBase64(data) == <<"base64", data>>

\* The TakeScreenshot requests among the messages of the command in hand
Shots(msgs) == SelectSeq(msgs, LAMBDA m : m.msg = "TakeScreenshot")

\* handle_take_screenshot up to the first receiver.recv() of take_screenshot(None); nones
\* counts the requests answered with None
HandleTakeScreenshot ==
    /\ pc = "idle"
    /\ Admitted("TakeScreenshot", session)
    /\ last' = Started("TakeScreenshot", [nones |-> 0])
    /\ sent' = <<TakeScreenshotMsg(Unwrap(session).top_level_browsing_context_id, None, 1)>>
    /\ pc' = "wait_shot"
    /\ UNCHANGED <<session, uuidCount, flow, dialog>>
    /\ EngineIdle

\* take_screenshot from receiver.recv() on, and the ValueResponse the two handlers build:
\* the engine answers the request with a framebuffer, which is encoded and returned; or
\* with None, and the Handler sleeps and asks again on a new channel, or gives up after
\* the last request
ScreenshotReplied ==
    /\ pc = "wait_shot"
    /\ LET polls == Len(Shots(sent))
           request == sent[Len(sent)]
       IN \/ \E img \in Images :
               /\ last' = [last EXCEPT !.resp = Ok("Value", JStr(EncodeBase64(EncodePng(img))))]
               /\ pc' = "idle"
               /\ UNCHANGED sent
          \/ /\ ScreenshotExhausted(polls)
             /\ last' = [last EXCEPT !.resp = Err("Timeout", "Taking screenshot timed out"),
                                     !.arg.nones = polls]
             /\ pc' = "idle"
             /\ UNCHANGED sent
          \/ /\ ~ScreenshotExhausted(polls)
             /\ sent' = Append(sent, TakeScreenshotMsg(
                                         Unwrap(session).top_level_browsing_context_id,
                                         request.rect, polls + 1))
             /\ last' = [last EXCEPT !.arg.nones = polls]
             /\ UNCHANGED pc
    /\ UNCHANGED <<session, uuidCount, flow, dialog>>
    /\ EngineIdle

\* The bounding client rects the engine may report
Rects == {<<0, 0, 10, 10>>}

\* The engine's answer to GetBoundingClientRect: Result<Rect<f32>, ErrorStatus>
RectReplies == {[ok |-> TRUE, rect |-> r] : r \in Rects} \cup {[ok |-> FALSE, rect |-> <<>>]}

HandleTakeElementScreenshot ==
    /\ pc = "idle"
    /\ Admitted("TakeElementScreenshot", session)
    /\ \E element \in Elements :
         SendAndWait("TakeElementScreenshot",
                     [element |-> element, reply |-> None, nones |-> 0],
                     ScriptCommandWith(Unwrap(session).browsing_context_id,
                                       "GetBoundingClientRect", [element |-> element]))

\* A handler that takes the screenshot of the whole page when the element is gone
ElementScreenshotEager(reply, top) ==
    [ resp |-> Pending,
      sent |-> <<TakeScreenshotMsg(top, IF reply.ok THEN Some(reply.rect) ELSE None, 1)>>,
      pc |-> "wait_shot" ]
\* handle_take_element_screenshot, lines 1619-1633: what follows the reply, up to the
\* first receiver.recv() of take_screenshot(Some(rect))
ElementScreenshot(reply, top) ==
    IF reply.ok
    THEN [ resp |-> Pending, sent |-> <<TakeScreenshotMsg(top, Some(reply.rect), 1)>>,
           pc |-> "wait_shot" ]
    ELSE [ resp |-> Err("StaleElementReference", "Element not found"), sent |-> <<>>,
           pc |-> "idle" ]

BoundingClientRectReplied ==
    /\ pc = "wait_reply"
    /\ last.cmd = "TakeElementScreenshot"
    /\ \E reply \in RectReplies :
         LET o == ElementScreenshot(reply, Unwrap(session).top_level_browsing_context_id)
         IN  /\ last' = [last EXCEPT !.resp = o.resp, !.arg.reply = Some(reply)]
             /\ sent' = sent \o o.sent
             /\ pc' = o.pc
    /\ UNCHANGED <<session, uuidCount, flow, dialog>>
    /\ EngineIdle

-----------------------------------------------------------------------------
(* AddCookie *)

\* AddCookieParameters, as far as handle_add_cookie reads them
CookieParameters ==
    [ name : {"n"}, value : {"v"}, secure : BOOLEAN, httpOnly : {FALSE},
      domain : {None, Some("d")}, path : {None, Some("/")} ]

\* cookie::Cookie::build(..).secure(..).http_only(..), then domain and path when given
BuildCookie(params) ==
    [ name |-> params.name, value |-> params.value, secure |-> params.secure,
      http_only |-> params.httpOnly, domain |-> params.domain, path |-> params.path ]

\* The engine's answer: Result<(), WebDriverCookieError>
CookieReplies == {"Ok", "InvalidDomain", "UnableToSetCookie"}

\* A mapping with the two errors exchanged
AddCookieResponseSwapped(reply) ==
    CASE reply = "Ok" -> Ok("Void", <<>>)
      [] reply = "InvalidDomain" -> Err("UnableToSetCookie", "Unable to set cookie")
      [] reply = "UnableToSetCookie" -> Err("InvalidCookieDomain", "Invalid cookie domain")
\* handle_add_cookie, lines 1270-1282
AddCookieResponse(reply) ==
    CASE reply = "Ok" -> Ok("Void", <<>>)
      [] reply = "InvalidDomain" -> Err("InvalidCookieDomain", "Invalid cookie domain")
      [] reply = "UnableToSetCookie" -> Err("UnableToSetCookie", "Unable to set cookie")

HandleAddCookie ==
    /\ pc = "idle"
    /\ Admitted("AddCookie", session)
    /\ \E params \in CookieParameters :
         SendAndWait("AddCookie", [params |-> params, reply |-> ""],
                     ScriptCommandWith(Unwrap(session).browsing_context_id, "AddCookie",
                                       [cookie |-> BuildCookie(params)]))

AddCookieReplied ==
    /\ pc = "wait_reply"
    /\ last.cmd = "AddCookie"
    /\ \E reply \in CookieReplies :
         /\ last' = [last EXCEPT !.resp = AddCookieResponse(reply), !.arg.reply = reply]
         /\ pc' = "idle"
         /\ UNCHANGED <<session, sent, uuidCount, flow, dialog>>
         /\ EngineIdle

-----------------------------------------------------------------------------
(* GetNamedCookie *)

\* The cookies of the document, as the engine holds them (cookie::Cookie)
EngineCookie(name) ==
    [name |-> name, value |-> "v", path |-> Some("/"), domain |-> None, expires |-> None,
     secure |-> None, http_only |-> Some(TRUE), same_site |-> None]

\* cookie_msg_to_cookie, lines 89-102
CookieMsgToCookie(cookie) ==
    [ name |-> cookie.name, value |-> cookie.value, path |-> cookie.path,
      domain |-> cookie.domain, expiry |-> cookie.expires,
      secure |-> IF IsSome(cookie.secure) THEN Unwrap(cookie.secure) ELSE FALSE,
      http_only |-> IF IsSome(cookie.http_only) THEN Unwrap(cookie.http_only) ELSE FALSE,
      same_site |-> cookie.same_site ]

\* The names a client asks for: "n" is a cookie of the document, "m" is not
CookieNames == {"n", "m"}

\* The engine's answer to GetCookie(name): the cookies of that name
GetCookieReply(name) == IF name = "n" THEN <<EngineCookie(name)>> ELSE <<>>

HandleGetCookie ==
    /\ pc = "idle"
    /\ Admitted("GetNamedCookie", session)
    /\ \E name \in CookieNames :
         SendAndWait("GetNamedCookie", [name |-> name, cookies |-> None],
                     ScriptCommandWith(Unwrap(session).browsing_context_id, "GetCookie",
                                       [name |-> name]))

\* handle_get_cookie, lines 1241-1247: the first cookie of the reply, .next().unwrap()
GetCookieResponse(cookies) ==
    IF Len(cookies) > 0 THEN Ok("Cookie", CookieMsgToCookie(cookies[1])) ELSE Panicked

GetCookieReplied ==
    /\ pc = "wait_reply"
    /\ last.cmd = "GetNamedCookie"
    /\ LET cookies == GetCookieReply(last.arg.name)
           resp == GetCookieResponse(cookies)
       IN  /\ last' = [last EXCEPT !.resp = resp, !.arg.cookies = Some(cookies)]
           /\ pc' = IF resp = Panicked THEN "panicked" ELSE "idle"
    /\ UNCHANGED <<session, sent, uuidCount, flow, dialog>>
    /\ EngineIdle

-----------------------------------------------------------------------------
(* SwitchToWindow *)

\* SwitchToWindowParameters::handle: the text of a uuid, of this session or not
SwitchHandles == {UuidToString(<<"uuid", n>>) : n \in 1..(MaxUuid + 1)}

\* A handler that accepts every handle
SwitchToWindowAny(handle, sess) == Ok("Void", <<>>)
\* handle_switch_to_window, lines 919-927
SwitchToWindow(handle, sess) ==
    IF handle = UuidToString(Unwrap(sess).id)
    THEN Ok("Void", <<>>)
    ELSE Err("NoSuchWindow", "No such window")

HandleSwitchToWindow ==
    /\ pc = "idle"
    /\ Admitted("SwitchToWindow", session)
    /\ \E handle \in SwitchHandles :
         Return("SwitchToWindow", [handle |-> handle], SwitchToWindow(handle, session),
                session, <<>>)
    /\ UNCHANGED <<uuidCount, flow, dialog>>
    /\ EngineIdle

-----------------------------------------------------------------------------
(* SetWindowRect: the resize, the helper thread and the size replies *)

MaxResize == 2

\* WindowRectParameters: width and height, Option<i32> that the route decoder keeps >= 0
WindowRectParameters ==
    { [width |-> None, height |-> None], [width |-> Some(400), height |-> Some(300)] }

\* handle_set_window_size, lines 711-723: None is 0; `as u32` and to_i32 give back a
\* value that is not negative
RequestedSize(params) ==
    << IF IsSome(params.width) THEN Unwrap(params.width) ELSE 0,
       IF IsSome(params.height) THEN Unwrap(params.height) ELSE 0 >>

\* The two messages carry a sender of the channel ch made by the command (line 710):
\* sender.clone() in SetWindowSize, sender itself moved into the helper thread
SetWindowSizeMsg(top, size, ch) ==
    [msg |-> "SetWindowSize", ctx |-> top, size |-> size, sender |-> <<"chan", ch>>]
GetWindowSizeMsg(top, ch) ==
    [msg |-> "GetWindowSize", ctx |-> top, sender |-> <<"chan", ch>>]

\* WindowRectResponse, lines 745-750
WindowRectResponse(window_size) ==
    Ok("WindowRect", [x |-> 0, y |-> 0, width |-> window_size[1], height |-> window_size[2]])

\* Lines 710-743 up to receiver.recv(): the message is sent, the helper thread is spawned
\* with the message it will send after its sleep, and the Handler blocks on the receiver
HandleSetWindowSize ==
    /\ pc = "idle"
    /\ Admitted("SetWindowRect", session)
    /\ windows.chans < MaxResize
    /\ \E params \in WindowRectParameters :
         LET ch == windows.chans + 1
             top == Unwrap(session).top_level_browsing_context_id
             m == SetWindowSizeMsg(top, RequestedSize(params), ch)
         IN  /\ last' = Started("SetWindowRect", [params |-> params, chan |-> ch])
             /\ sent' = <<m>>
             /\ windows' = [windows EXCEPT !.chans = ch,
                                           !.resizes = @ \cup {m},
                                           !.sleeping = @ \cup {GetWindowSizeMsg(top, ch)},
                                           !.replies = <<>>]
    /\ pc' = "wait_size"
    /\ UNCHANGED <<session, load_status_receiver, loading, navCount, uuidCount, flow, dialog, engine,
                   document, prefs>>

\* A helper thread that ends without sending
HelperSendsNothing(m) == {}
\* Lines 736-740: what the helper thread puts on constellation_chan after its sleep
HelperSends(m) == {m}

\* The helper thread of some SetWindowRect, of the command in hand or of an earlier one,
\* wakes up and sends its GetWindowSize
HelperProbe ==
    /\ \E m \in windows.sleeping :
         windows' = [windows EXCEPT !.sleeping = @ \ {m}, !.probes = @ \cup HelperSends(m)]
    /\ UNCHANGED <<session, pc, last, sent, load_status_receiver, loading, navCount, uuidCount, flow, dialog,
                   engine, document, prefs>>

\* A size sent on the sender of channel ch: it reaches the receiver while the command that
\* made the channel is waiting on it, and is lost once that receiver is dropped
Deliver(w, sender, size) ==
    IF pc = "wait_size" /\ last.arg.chan = sender[2]
    THEN [w EXCEPT !.replies = Append(@, size)]
    ELSE w

\* The engine takes a SetWindowSize: the window is resized and the new size is sent on
\* the sender, or the resize is ignored and nothing is sent
EngineSetWindowSize ==
    /\ \E m \in windows.resizes :
         \/ windows' = Deliver([windows EXCEPT !.resizes = @ \ {m}, !.size = m.size],
                               m.sender, m.size)
         \/ windows' = [windows EXCEPT !.resizes = @ \ {m},
                                       !.ignored = @ \cup {m.sender[2]}]
    /\ UNCHANGED <<session, pc, last, sent, load_status_receiver, loading, navCount, uuidCount, flow, dialog,
                   engine, document, prefs>>

\* The engine answers a GetWindowSize with the current size of the window
EngineGetWindowSize ==
    /\ \E m \in windows.probes :
         windows' = Deliver([windows EXCEPT !.probes = @ \ {m}], m.sender, windows.size)
    /\ UNCHANGED <<session, pc, last, sent, load_status_receiver, loading, navCount, uuidCount, flow, dialog,
                   engine, document, prefs>>

\* Lines 743-751: receiver.recv() returns the first size on the channel; the receiver is
\* dropped with the return
WindowSizeReceived ==
    /\ pc = "wait_size"
    /\ windows.replies # <<>>
    /\ last' = [last EXCEPT !.resp = WindowRectResponse(Head(windows.replies))]
    /\ windows' = [windows EXCEPT !.replies = <<>>]
    /\ pc' = "idle"
    /\ UNCHANGED <<session, sent, load_status_receiver, loading, navCount, uuidCount, flow, dialog, engine,
                   document, prefs>>

-----------------------------------------------------------------------------
(* GetPrefs, SetPrefs, ResetPrefs and the preference store (servo_config::prefs) *)

\* pref_map().get
PrefGet(store, name) == store[name]

\* pref_map().set: Err for a name that is not a preference
PrefSet(store, key, value) ==
    IF PrefDefaults[key].t = "Missing"
    THEN [ok |-> FALSE, store |-> store]
    ELSE [ok |-> TRUE, store |-> [store EXCEPT ![key] = value]]

\* pref_map().reset: the default, which the preference has again; Err for a name that is
\* not a preference
PrefReset(store, name) ==
    IF PrefDefaults[name].t = "Missing"
    THEN [ok |-> FALSE, value |-> PrefMissing, store |-> store]
    ELSE [ok |-> TRUE, value |-> PrefDefaults[name],
          store |-> [store EXCEPT ![name] = PrefDefaults[name]]]

\* pref_map().reset_all
PrefResetAll(store) == PrefDefaults

\* A preference value as JSON: the underlying primitive, null for Missing
PrefToJson(value) ==
    CASE value.t = "Int" -> JNum(value.v)
      [] value.t = "Str" -> JStr(value.v)
      [] value.t = "Missing" -> JNull

\* The values a SetPrefs carries, one of each kind
PrefKinds == {"Int", "Str"}
PrefValueOf(kind) == IF kind = "Int" THEN PrefInt(1) ELSE PrefStr("x")

Range(q) == {q[i] : i \in DOMAIN q}

\* GetPrefsParameters::prefs: up to two names
PrefLists == {<<>>} \cup {<<n>> : n \in PrefNames} \cup {<<n, m>> : n, m \in PrefNames}

\* handle_get_prefs, lines 1640-1649: the BTreeMap of the names asked for
GetPrefs(store, names) == [name \in Range(names) |-> PrefToJson(PrefGet(store, name))]

HandleGetPrefs ==
    /\ pc = "idle"
    /\ Admitted("GetPrefs", session)
    /\ \E names \in PrefLists :
         Return("GetPrefs", [names |-> names], Ok("Value", GetPrefs(prefs, names)), session,
                <<>>)
    /\ UNCHANGED <<load_status_receiver, loading, navCount, uuidCount, flow, dialog, engine, document,
                   windows, prefs>>

\* A loop that ends after the first pair
SetPrefsFirstOnly(store, pairs) ==
    IF pairs = <<>> THEN [ok |-> TRUE, store |-> store]
    ELSE PrefSet(store, pairs[1].key, pairs[1].value)
\* handle_set_prefs, lines 1660-1664: the pairs are set in order; the first Err ends the
\* loop in expect
SetPrefs(store, pairs) ==
    LET F[i \in 0..Len(pairs)] ==
            IF i = 0 THEN [ok |-> TRUE, store |-> store]
            ELSE IF ~F[i - 1].ok THEN F[i - 1]
            ELSE PrefSet(F[i - 1].store, pairs[i].key, pairs[i].value)
    IN  F[Len(pairs)]

\* An entry of the "prefs" object of a set-prefs body: the name and the JSON token
PrefEntry(key, kind) == [key |-> key, value |-> PrefToJson(PrefValueOf(kind))]

\* impl Deserialize for WebDriverPrefValue, lines 304-337: dispatch on the token
DeserializePrefValue(j) ==
    CASE j.t = "num" -> PrefInt(j.v)
      [] j.t = "str" -> PrefStr(j.v)

\* map_to_vec, TupleVecMapVisitor::visit_map, lines 381-387: every entry of the map, as
\* next_entry hands them over, is pushed on the Vec
MapToVec(body) ==
    [i \in 1..Len(body) |->
        [key |-> body[i].key, value |-> DeserializePrefValue(body[i].value)]]

\* The keys of the store's names in the order of their text
PrefOrder == <<"a", "b", "c">>

\* The "prefs" object of a request as the route is handed it (body_data: &Value, lines
\* 211-214): a serde_json Map keeps one entry per key, with the value of the key's last
\* occurrence, in the place of its first. The Map hands its entries over by key in the
\* default build of serde_json (a BTreeMap), as they first came with its feature
\* preserve_order. The workspace decides which build it is, not this crate
ObjectOf(text, preserve_order) ==
    LET F[i \in 0..Len(text)] ==
            IF i = 0 THEN <<>>
            ELSE IF \E j \in DOMAIN F[i - 1] : F[i - 1][j].key = text[i].key
                THEN [j \in DOMAIN F[i - 1] |->
                         IF F[i - 1][j].key = text[i].key THEN text[i] ELSE F[i - 1][j]]
            ELSE Append(F[i - 1], text[i])
        entries == F[Len(text)]
        keys == SelectSeq(PrefOrder, LAMBDA n : \E j \in DOMAIN entries : entries[j].key = n)
    IN  IF preserve_order THEN entries
        ELSE [i \in DOMAIN keys |->
                 entries[CHOOSE j \in DOMAIN entries : entries[j].key = keys[i]]]

\* The route decodes the request (body is its "prefs" object as the caller wrote it) and
\* the pairs are handed to handle_set_prefs
HandleSetPrefs ==
    /\ pc = "idle"
    /\ Admitted("SetPrefs", session)
    /\ \E len \in 1..2, k1, k2 \in PrefNames, t1, t2 \in PrefKinds, preserve_order \in BOOLEAN :
         LET body == SubSeq(<<PrefEntry(k1, t1), PrefEntry(k2, t2)>>, 1, len)
             pairs == MapToVec(ObjectOf(body, preserve_order))
             o == SetPrefs(prefs, pairs)
         IN  /\ prefs' = o.store
             /\ last' = [Started("SetPrefs", [body |-> body, pairs |-> pairs])
                            EXCEPT !.resp = IF o.ok THEN Ok("Void", <<>>) ELSE Panicked]
             /\ pc' = IF o.ok THEN "idle" ELSE "panicked"
    /\ sent' = <<>>
    /\ UNCHANGED <<session, load_status_receiver, loading, navCount, uuidCount, flow, dialog, engine,
                   document, windows>>

\* handle_reset_prefs, lines 1672-1689: the store and the map of the response
ResetPrefs(store, names) ==
    IF Len(names) = 0
    THEN [store |-> PrefResetAll(store), map |-> <<>>]
    ELSE LET F[i \in 0..Len(names)] ==
                 IF i = 0 THEN store ELSE PrefReset(F[i - 1], names[i]).store
         IN  [ store |-> F[Len(names)],
               map |-> [name \in Range(names) |->
                           LET i == CHOOSE i \in 1..Len(names) :
                                       /\ names[i] = name
                                       /\ \A j \in (i + 1)..Len(names) : names[j] # name
                               r == PrefReset(F[i - 1], name)
                           IN  PrefToJson(IF r.ok THEN r.value ELSE PrefMissing)] ]

HandleResetPrefs ==
    /\ pc = "idle"
    /\ Admitted("ResetPrefs", session)
    /\ \E names \in PrefLists :
         LET o == ResetPrefs(prefs, names)
         IN  /\ prefs' = o.store
             /\ Return("ResetPrefs", [names |-> names], Ok("Value", o.map), session, <<>>)
    /\ UNCHANGED <<load_status_receiver, loading, navCount, uuidCount, flow, dialog, engine, document,
                   windows>>

-----------------------------------------------------------------------------
(* The element commands and ElementSendKeys *)

\* The commands that take an element handle and answer with one value of it
ElementCommands ==
    {"IsEnabled", "IsSelected", "GetElementText", "GetElementRect", "GetElementTagName",
     "GetElementAttribute", "GetElementProperty", "GetCSSValue"}

\* The WebDriverScriptCommand variant each handler builds
ElementVariant(cmd) == IF cmd = "GetCSSValue" THEN "GetElementCSS" ELSE cmd

\* The browsing context each handler addresses: handle_is_enabled and handle_is_selected
\* call top_level_script_command, the other six browsing_context_script_command
ElementCommandMsg(sess, cmd, element) ==
    ScriptCommandWith(IF cmd \in {"IsEnabled", "IsSelected"}
                      THEN TopLevelScriptCommand(sess, cmd).ctx
                      ELSE BrowsingContextScriptCommand(sess, cmd).ctx,
                      ElementVariant(cmd), [element |-> element])

\* What the engine may answer: Result<T, ErrorStatus>
ElementReplies ==
    {[ok |-> TRUE, status |-> "", value |-> "v"],
     [ok |-> FALSE, status |-> "StaleElementReference", value |-> ""]}

\* The response to a reply: ElementRect for GetElementRect, a value for the others
ElementResponse(cmd, r) ==
    IF ~r.ok THEN Err(r.status, "")
    ELSE Ok(IF cmd = "GetElementRect" THEN "ElementRect" ELSE "Value", r.value)

\* The eight handlers up to the send
HandleElementCommand ==
    /\ pc = "idle"
    /\ \E cmd \in ElementCommands, element \in Elements :
         /\ Admitted(cmd, session)
         /\ SendAndWait(cmd, [element |-> element], ElementCommandMsg(session, cmd, element))

\* The eight handlers from receiver.recv().unwrap() on
ElementCommandReplied ==
    /\ pc = "wait_reply"
    /\ last.cmd \in ElementCommands
    /\ \E r \in ElementReplies : Replied(ElementResponse(last.cmd, r))

\* SendKeysParameters::text
KeyTexts == {"a", "ab"}

\* WebDriverCommandMsg::SendKeys(browsing_context_id, input_events): the events are the
\* ones keyboard_types::webdriver::send_keys makes of the text
SendKeysMsg(ctx, text) == [msg |-> "SendKeys", ctx |-> ctx, events |-> [send_keys |-> text]]

\* handle_element_send_keys up to the first recv: the browsing context id is read once
HandleElementSendKeys ==
    /\ pc = "idle"
    /\ Admitted("ElementSendKeys", session)
    /\ \E element \in Elements, text \in KeyTexts :
         SendAndWait("ElementSendKeys", [element |-> element, text |-> text, focus |-> None],
                     ScriptCommandWith(Unwrap(session).browsing_context_id, "FocusElement",
                                       [element |-> element]))

\* What the engine may answer to FocusElement: Result<(), ErrorStatus>
FocusReplies ==
    {[ok |-> TRUE, status |-> ""], [ok |-> FALSE, status |-> "NoSuchElement"],
     [ok |-> FALSE, status |-> "UnknownError"]}

\* A handler that sends the keys whatever the focus reply
SendKeysUnconditional(browsing_context_id, text, r) ==
    [ resp |-> IF r.ok THEN Ok("Void", <<>>) ELSE Err(r.status, ""),
      msgs |-> <<SendKeysMsg(browsing_context_id, text)>> ]
\* handle_element_send_keys, lines 1466-1481: an error reply is returned by `?`, after a
\* success the keys go to the browsing context read at line 1455
SendKeysAfterFocus(browsing_context_id, text, r) ==
    IF r.ok THEN [resp |-> Ok("Void", <<>>), msgs |-> <<SendKeysMsg(browsing_context_id, text)>>]
    ELSE [resp |-> Err(r.status, ""), msgs |-> <<>>]

\* handle_element_send_keys from receiver.recv().unwrap() on
FocusElementReplied ==
    /\ pc = "wait_reply"
    /\ last.cmd = "ElementSendKeys"
    /\ \E r \in FocusReplies :
         LET o == SendKeysAfterFocus(sent[1].ctx, last.arg.text, r)
         IN /\ last' = [last EXCEPT !.resp = o.resp, !.arg.focus = Some(r)]
            /\ sent' = sent \o o.msgs
    /\ pc' = "idle"
    /\ UNCHANGED <<session, uuidCount, flow, dialog>>
    /\ EngineIdle

-----------------------------------------------------------------------------
(* The bridge and the engine *)

Next ==
    \/ HandleNewSession
    \/ FocusReplied
    \/ HandleDeleteSession
    \/ TeardownSession
    \/ HandleStatus
    \/ RejectedNoSession
    \/ HandleUnimplemented
    \/ HandleGet
    \/ HandleRefresh
    \/ LoadStatusForwarded
    \/ WaitForLoadReceived
    \/ WaitForLoadTimedOut
    \/ HandleTitle
    \/ TitleReplied
    \/ ReplyHangup
    \/ HandleSetTimeouts

Spec == Init /\ [][Next]_vars

\* The focus loop of NewSession with an engine that may answer any poll with None. The
\* other specifications take the session made at the first poll answered, with the
\* engine's steps between the poll and its answer: a session made at a later poll is the
\* same session, after more polls of the NewSession command
NextFocus ==
    \/ HandleNewSession
    \/ FocusReplied
    \/ FocusNoneReplied
    \/ HandleDeleteSession
    \/ HandleStatus

SpecFocus == Init /\ [][NextFocus]_vars

\* The bridge driven with the commands that touch the input state
NextInput ==
    \/ HandleNewSession
    \/ FocusReplied
    \/ HandleDeleteSession
    \/ HandlePerformActions
    \/ HandleReleaseActions
    \/ HandleElementClick
    \/ ElementClickReplied
    \/ ReplyHangup

SpecInput == Init /\ [][NextInput]_vars

\* The bridge driven with the navigation and frame commands
NextFrames ==
    \/ HandleNewSession
    \/ FocusReplied
    \/ HandleDeleteSession
    \/ HandleGet
    \/ HandleRefresh
    \/ HandleGoBack
    \/ HandleGoForward
    \/ LoadStatusForwarded
    \/ HistoryTraversed
    \/ WaitForLoadReceived
    \/ WaitForLoadTimedOut
    \/ HandleSwitchToFrame
    \/ HandleSwitchToParentFrame
    \/ FrameReplied
    \/ ReplyHangup

SpecFrames == Init /\ [][NextFrames]_vars

\* The steps of the Handler thread among the script, find and window-handle commands:
\* taking the next command and handling it up to its response or its wait
HandlerScript ==
    \/ HandleNewSession
    \/ HandleDeleteSession
    \/ HandleSetTimeouts
    \/ HandleExecuteScript
    \/ HandleExecuteAsyncScript
    \/ HandleFind
    \/ HandleWindowHandle
    \/ HandleWindowHandles

\* The engine's part: a reply, or the reply sender dropped
EngineScript ==
    \/ FocusReplied
    \/ ScriptReplied
    \/ FindReplied
    \/ ReplyHangup

NextScript == HandlerScript \/ EngineScript

\* The Handler thread runs whenever it can; nothing obliges the engine to answer
SpecScript == Init /\ [][NextScript]_vars /\ WF_vars(HandlerScript)

\* The bridge driven with the screenshot, cookie and window-switch commands
NextShots ==
    \/ HandleNewSession
    \/ FocusReplied
    \/ HandleDeleteSession
    \/ HandleTakeScreenshot
    \/ HandleTakeElementScreenshot
    \/ BoundingClientRectReplied
    \/ ScreenshotReplied
    \/ HandleAddCookie
    \/ AddCookieReplied
    \/ HandleGetCookie
    \/ GetCookieReplied
    \/ HandleSwitchToWindow
    \/ ReplyHangup

SpecShots == Init /\ [][NextShots]_vars

\* The bridge driven with SetWindowRect, its helper threads and the engine's window
NextWindow ==
    \/ HandleNewSession
    \/ FocusReplied
    \/ HandleDeleteSession
    \/ HandleSetWindowSize
    \/ HelperProbe
    \/ EngineSetWindowSize
    \/ EngineGetWindowSize
    \/ WindowSizeReceived

\* A spawned helper thread runs to its end, the engine answers every GetWindowSize it is
\* sent, and a Handler blocked in recv wakes up when a size is on its channel; nothing
\* obliges the engine to act on a SetWindowSize
SpecWindow ==
    /\ Init
    /\ [][NextWindow]_vars
    /\ WF_vars(HelperProbe)
    /\ WF_vars(EngineGetWindowSize)
    /\ WF_vars(WindowSizeReceived)

\* The bridge driven with the timeout commands
NextTimeouts ==
    \/ HandleNewSession
    \/ FocusReplied
    \/ HandleDeleteSession
    \/ HandleSetTimeouts
    \/ HandleGetTimeouts

SpecTimeouts == Init /\ [][NextTimeouts]_vars

\* The bridge driven with the preference commands
NextPrefs ==
    \/ HandleNewSession
    \/ FocusReplied
    \/ HandleDeleteSession
    \/ HandleGetPrefs
    \/ HandleSetPrefs
    \/ HandleResetPrefs

SpecPrefs == Init /\ [][NextPrefs]_vars

\* The bridge driven with the frame switch and the element commands
NextElements ==
    \/ HandleNewSession
    \/ FocusReplied
    \/ HandleDeleteSession
    \/ HandleSwitchToFrame
    \/ FrameReplied
    \/ HandleTitle
    \/ TitleReplied
    \/ HandleFind
    \/ FindReplied
    \/ HandleElementCommand
    \/ ElementCommandReplied
    \/ HandleElementSendKeys
    \/ FocusElementReplied
    \/ ReplyHangup

SpecElements == Init /\ [][NextElements]_vars

\* A block flow laid out child by child
NextMargins ==
    \/ BeginBlock
    \/ ChildBlockStart
    \/ ChildBlockEnd

SpecMargins == Init /\ [][NextMargins]_vars

\* Script calling into one dialog element
NextDialog ==
    \/ SetOpen
    \/ SetReturnValue
    \/ DialogClose

SpecDialog == Init /\ [][NextDialog]_vars

-----------------------------------------------------------------------------
(* Properties *)

Gated == Commands \ {"NewSession", "Status"}

\* C1: every command other than NewSession and Status that arrives while there is no
\* session is answered SessionNotCreated, sends nothing to the engine and leaves the
\* Handler without a session.
C1_SessionGating ==
    (last.cmd \in Gated /\ ~last.had) =>
        /\ last.resp.status = "SessionNotCreated"
        /\ ~last.resp.ok
        /\ sent = <<>>
        /\ last.kept
        /\ ~IsSome(session)
        /\ pc = "idle"

C1_Witness ==
    /\ last.cmd = "GetTitle"
    /\ ~last.had
    /\ last.resp.status = "SessionNotCreated"
    /\ uuidCount = 0

\* C2 (as claimed): a NewSession that arrives while a session exists is answered
\* UnknownError "Session already created" and leaves the session as it was.
C2_SecondNewSessionRefused ==
    (last.cmd = "NewSession" /\ last.had) =>
        /\ last.resp.status = "UnknownError"
        /\ last.resp.msg = "Session already created"
        /\ last.kept

\* C3 (as claimed): a NewSession that arrives while there is no session creates one
\* exactly when its response is a success.
C3_SessionIffSuccess ==
    (last.cmd = "NewSession" /\ ~last.had) => (last.resp.ok <=> ~last.kept)

\* C4: after DeleteSession or teardown_session there is no session, and a session comes
\* into being only by a NewSession answered with a NewSession response; until then
\* C1 applies to every other command.
C4_NoSessionAfterDelete ==
    /\ [](last.cmd \in {"DeleteSession", "teardown_session"} => ~IsSome(session))
    /\ [][ (~IsSome(session) /\ IsSome(session')) =>
              (last'.cmd = "NewSession" /\ last'.resp.kind = "NewSession") ]_vars
    /\ [][ (~IsSome(session) /\ last'.cmd \in Gated /\ last' # last) =>
              (last'.resp.status = "SessionNotCreated" /\ ~IsSome(session')) ]_vars

\* A second session, created after the first was deleted or torn down
C4_Witness ==
    /\ IsSome(session)
    /\ Unwrap(session).id = NewUuid(1)
    /\ last.cmd = "NewSession"
    /\ last.resp.kind = "NewSession"

\* The sources of a session that hold a key or a button down
PressedSources(s) ==
    {id \in DOMAIN s.input_state_table :
        /\ s.input_state_table[id].kind \in {"Key", "Pointer"}
        /\ s.input_state_table[id].pressed # {}}

\* C5 (as claimed): after ReleaseActions has returned, no input source holds a key or a
\* button down, the input state table is empty and the input cancel list is empty.
C5_CancelListInverse ==
    (last.cmd = "ReleaseActions" /\ pc = "idle" /\ IsSome(session)) =>
        /\ PressedSources(Unwrap(session)) = {}
        /\ Unwrap(session).input_state_table = EmptyTable
        /\ Unwrap(session).input_cancel_list = <<>>

\* The keys and the buttons the entries of a cancel list release
ReleasedKeys(q) ==
    {Normalize(q[i].actions[1].value) : i \in {j \in DOMAIN q : q[j].type = "key"}}
ReleasedButtons(q) ==
    {q[i].actions[1].button : i \in {j \in DOMAIN q : q[j].type = "pointer"}}

\* C6 (as claimed): whenever there is a session, also after a PerformActions, ElementClick or
\* ReleaseActions that failed part-way, every key and button held down in the engine
\* through this session has a reversal entry in the input cancel list, and the replay
\* of the list in reverse order succeeds and leaves no key and no button held down.
C6_CancelListReleasesAll ==
    IsSome(session) =>
        LET q == Unwrap(session).input_cancel_list
            m == DispatchActions(Machine([Unwrap(session) EXCEPT !.input_cancel_list = <<>>],
                                         engine),
                                 Reverse(q))
        IN /\ engine.keys \subseteq ReleasedKeys(q)
           /\ engine.buttons \subseteq ReleasedButtons(q)
           /\ m.err = ""
           /\ m.e = NoPressed

\* C7: a Get with a URL that parses sends one LoadUrl carrying the load-status sender,
\* then answers Void on receiving a load status, or Timeout when none came within the
\* session's current load_timeout.
C7_NavigateAndWait ==
    (last.cmd = "Get" /\ last.had /\ IsSome(ServoUrlParse(last.arg))) =>
        /\ sent = <<LoadUrlMsg(Unwrap(session).top_level_browsing_context_id, last.arg)>>
        /\ last.timeout = Unwrap(session).load_timeout
        /\ last.kept
        /\ pc \in {"wait_load", "idle"}
        /\ pc = "wait_load" => last.resp = Pending
        /\ pc = "idle" =>
              \/ last.resp.kind = "Void" /\ Len(last.got) = 1
              \/ /\ last.resp.status = "Timeout"
                 /\ last.got = <<>>
                 /\ last.queued => Unwrap(session).load_timeout = 0

\* A Get that timed out on the deadline an earlier SetTimeouts gave
C7_Witness ==
    /\ last.cmd = "Get"
    /\ last.resp.status = "Timeout"
    /\ IsSome(session)
    /\ Unwrap(session).load_timeout = 50
    /\ last.timeout = 50

\* C8: a Get with a URL that does not parse is answered InvalidArgument "Invalid URL",
\* sends nothing and leaves the session as it was.
C8_InvalidUrl ==
    (last.cmd = "Get" /\ last.had /\ ~IsSome(ServoUrlParse(last.arg))) =>
        /\ last.resp.status = "InvalidArgument"
        /\ last.resp.msg = "Invalid URL"
        /\ sent = <<>>
        /\ last.kept
        /\ last.nav = 0
        /\ pc = "idle"

C8_Witness ==
    /\ last.cmd = "Get"
    /\ last.had
    /\ last.arg.scheme = ""
    /\ last.resp.status = "InvalidArgument"
    /\ IsSome(session)

\* C9 (as claimed): the load status a Get or Refresh receives is the one of the
\* navigation that command started.
C9_OwnLoadStatus ==
    (last.cmd \in {"Get", "Refresh"} /\ last.got # <<>>) => last.got = <<last.nav>>

\* C10 (as claimed): when the engine drops the reply sender of a waiting command, the
\* command is answered UnknownError and the Handler goes on, its session intact.
C10_HangupIsUnknownError ==
    last.hangup =>
        /\ last.resp.status = "UnknownError"
        /\ pc = "idle"
        /\ IsSome(session)
        /\ last.kept

\* The Handler waits for the reply of a script while the session has a script timeout
WaitsOnScript ==
    /\ pc = "wait_reply"
    /\ last.cmd \in {"ExecuteScript", "ExecuteAsyncScript"}
    /\ IsSome(session)
    /\ IsSome(Unwrap(session).script_timeout)

\* C11 (as claimed): an ExecuteScript or ExecuteAsyncScript handled while script_timeout
\* is not null stops waiting on its reply channel, with the result or with Timeout, also
\* when the engine never replies: the Handler does not wait on a script reply forever.
C11_ScriptWaitEnds == WaitsOnScript ~> ~WaitsOnScript

\* C12: each of the four find commands, given CSSSelector, LinkText, PartialLinkText or
\* TagName, sends exactly one script command to the session's current browsing context,
\* with the partial flag set for PartialLinkText and clear for LinkText; given any other
\* strategy it is answered UnsupportedOperation, sends nothing and leaves the session.
C12_LocatorCoverage ==
    (last.cmd \in FindCommands /\ last.had) =>
        IF last.arg.using \in {"CSSSelector", "LinkText", "PartialLinkText", "TagName"}
        THEN /\ Len(sent) = 1
             /\ sent[1].msg = "ScriptCommand"
             /\ sent[1].ctx = Unwrap(session).browsing_context_id
             /\ sent[1].args.value = last.arg.value
             /\ sent[1].args.partial =
                    (CASE last.arg.using = "PartialLinkText" -> Some(TRUE)
                       [] last.arg.using = "LinkText" -> Some(FALSE)
                       [] OTHER -> None)
             /\ last.resp.status # "UnsupportedOperation"
        ELSE /\ last.resp.status = "UnsupportedOperation"
             /\ sent = <<>>
             /\ last.kept
             /\ pc = "idle"

C12_Witness ==
    /\ last.cmd = "FindElementElements"
    /\ last.arg.using = "PartialLinkText"
    /\ pc = "idle"
    /\ last.resp.ok
    /\ sent[1].cmd = "FindElementElementsLinkText"

\* C13: in a session GetWindowHandle returns the session id, GetWindowHandles a list of
\* that one value; the id of a session is the one its NewSession returned and does not
\* change while the session lives.
C13_SingleWindowIdentity ==
    /\ [](last.cmd = "GetWindowHandle" /\ last.had
            => last.resp.val = JStr(UuidToString(Unwrap(session).id)))
    /\ [](last.cmd = "GetWindowHandles" /\ last.had
            => /\ Len(last.resp.val.v) = 1
               /\ last.resp.val.v[1] = JStr(UuidToString(Unwrap(session).id)))
    /\ [][IsSome(session) /\ IsSome(session') => Unwrap(session').id = Unwrap(session).id]_vars
    /\ [][~IsSome(session) /\ IsSome(session')
            => /\ last'.cmd = "NewSession"
               /\ last'.resp.val.sessionId = UuidToString(Unwrap(session').id)]_vars

C13_Witness ==
    /\ last.cmd = "GetWindowHandles"
    /\ pc = "idle"
    /\ IsSome(session)
    /\ Unwrap(session).id = NewUuid(1)
    /\ last.resp.val.v = <<JStr(UuidToString(NewUuid(1)))>>

\* C14: a session created by a NewSession with empty capabilities has script_timeout
\* 30000, load_timeout 300000, implicit wait 0, page loading strategy "normal",
\* strict_file_interactability false, unhandled prompt behaviour "dismiss and notify",
\* an empty input state table and an empty cancel list, whatever the session before it was.
C14_DefaultsOnCreation ==
    ( /\ last.cmd = "NewSession"
      /\ ~last.had
      /\ IsSome(session)
      /\ last.arg.caps = NoCaps ) =>
        LET s == Unwrap(session) IN
        /\ s.script_timeout = <<30000>>
        /\ s.load_timeout = 300000
        /\ s.implicit_wait_timeout = 0
        /\ s.page_loading_strategy = "normal"
        /\ s.strict_file_interactability = FALSE
        /\ s.unhandled_prompt_behavior = "dismiss and notify"
        /\ DOMAIN s.input_state_table = {}
        /\ s.input_cancel_list = <<>>

\* A second session, created with empty capabilities after the first one was deleted
C14_Witness ==
    /\ last.cmd = "NewSession"
    /\ ~last.had
    /\ last.arg.caps = NoCaps
    /\ last.resp.ok
    /\ IsSome(session)
    /\ Unwrap(session).id = NewUuid(1)
    /\ Unwrap(session).load_timeout = 300000

\* C15 (as claimed): GoBack and GoForward send their message together with the
\* load-status sender and return Void only after a load status was received (Timeout
\* when none arrives within load_timeout).
C15_TraversalWaitsForLoad ==
    (last.cmd \in {"GoBack", "GoForward"} /\ last.had /\ pc = "idle") =>
        /\ Len(sent) = 1
        /\ "sender" \in DOMAIN sent[1]
        /\ last.resp.ok => last.got # <<>>
        /\ ~last.resp.ok => last.resp.status = "Timeout"

\* C16: a SwitchToFrame with a numeric frame id is answered UnsupportedOperation, sends
\* nothing to the engine and leaves the session, its browsing_context_id included.
C16_FrameByIndexRejected ==
    ( /\ last.cmd = "SwitchToFrame"
      /\ last.had
      /\ IsSome(last.arg)
      /\ Unwrap(last.arg).kind = "Short" ) =>
        /\ last.resp.status = "UnsupportedOperation"
        /\ sent = <<>>
        /\ last.kept
        /\ pc = "idle"

C16_Witness ==
    /\ last.cmd = "SwitchToFrame"
    /\ IsSome(last.arg)
    /\ Unwrap(last.arg).kind = "Short"
    /\ last.resp.status = "UnsupportedOperation"
    /\ IsSome(session)
    /\ Unwrap(session).browsing_context_id = FrameContext(0)

\* C18 (as claimed): whenever there is a session and no command is being handled,
\* browsing_context_id is the top-level browsing context or a frame of the document the
\* engine currently shows in it.
C18_ContextReachable ==
    (IsSome(session) /\ pc = "idle") =>
        Unwrap(session).browsing_context_id
            \in LiveContexts(document, Unwrap(session).top_level_browsing_context_id)

\* The load statuses the engine has forwarded and the Handler has not received
StatusesQueued == {load_status_receiver[i] : i \in DOMAIN load_status_receiver}

\* C19: a Get or Refresh that returned Timeout has sent its one navigation message and
\* nothing else, the engine still carries out the navigation, and the session is as it
\* was, so that the next command is admitted.
C19_SoftTimeout ==
    (last.cmd \in {"Get", "Refresh"} /\ last.resp.status = "Timeout") =>
        /\ pc = "idle"
        /\ Len(sent) = 1
        /\ sent[1].msg \in {"LoadUrl", "Refresh"}
        /\ last.nav \in loading \cup StatusesQueued
        /\ last.kept
        /\ IsSome(session)
        /\ \A c \in Commands : Admitted(c, session)

C19_Witness ==
    /\ last.cmd = "Refresh"
    /\ last.resp.status = "Timeout"
    /\ last.nav \in StatusesQueued
    /\ IsSome(session)

\* What an entry of the cancel list releases, and what an event to the engine releases
EntryReleases(entry) ==
    IF entry.type = "key" THEN <<"key", Normalize(entry.actions[1].value), 0>>
    ELSE <<"button", "", entry.actions[1].button>>
EventReleases(m) ==
    CASE m.msg = "KeyboardAction" /\ m.state = "up" -> <<"key", m.key, 0>>
      [] m.msg = "MouseButtonAction" /\ m.type = "up" -> <<"button", "", m.button>>
      [] OTHER -> <<"other", "", 0>>

\* C20: ReleaseActions dispatches the entries of the input cancel list last appended
\* first, through the dispatcher of PerformActions (one event to the engine per entry
\* carried out), and clears the input state table only after that dispatch has
\* succeeded: when the dispatch fails part-way the error is returned, the entries from
\* the failing one on are not dispatched and the table keeps its sources.
C20_ReleaseInReverseOrder ==
    [][ (last'.cmd = "ReleaseActions" /\ pc = "idle" /\ IsSome(session)) =>
            LET q == Unwrap(session).input_cancel_list
                n == Len(q)
            IN /\ Len(sent') <= n
               /\ \A i \in 1..Len(sent') : EventReleases(sent'[i]) = EntryReleases(q[n + 1 - i])
               /\ last'.resp.ok =>
                     /\ Len(sent') = n
                     /\ Unwrap(session').input_state_table = EmptyTable
               /\ ~last'.resp.ok =>
                     /\ Len(sent') < n
                     /\ DOMAIN Unwrap(session).input_state_table \subseteq
                            DOMAIN Unwrap(session').input_state_table
                     /\ Unwrap(session').input_state_table # EmptyTable
      ]_vars

\* A ReleaseActions that released button 1 first and the Shift key, pressed before it, last
C20_Witness ==
    /\ last.cmd = "ReleaseActions"
    /\ pc = "idle"
    /\ last.resp.ok
    /\ Len(sent) >= 2
    /\ EventReleases(sent[1]) = <<"button", "", 1>>
    /\ EventReleases(sent[Len(sent)]) = <<"key", "Shift", 0>>

\* A ReleaseActions whose replay failed after the first release: the table is not cleared
C20_FailedReplay ==
    /\ last.cmd = "ReleaseActions"
    /\ pc = "idle"
    /\ ~last.resp.ok
    /\ Len(sent) = 1
    /\ IsSome(session)
    /\ Unwrap(session).input_state_table # EmptyTable

\* C21 (as claimed): when the engine resolves the click to an element (the Handler then
\* draws the id of a fresh mouse source), the Handler dispatches a pointer move, a
\* button-down of button 1 and a button-up of button 1 in this order, removes the source
\* and returns Void; when the engine resolves to no element or reports an error, no
\* pointer action is dispatched, and the response is Void or the error.
C21_ElementClickSequence ==
    [][ (last.cmd = "ElementClick" /\ pc = "wait_reply" /\ pc' = "idle") =>
            LET n == Len(sent) IN
            IF uuidCount' # uuidCount
            THEN /\ last'.resp = Ok("Void", <<>>)
                 /\ Len(sent') = n + 3
                 /\ sent'[n + 1].msg = "MouseMoveAction"
                 /\ sent'[n + 2].msg = "MouseButtonAction"
                 /\ sent'[n + 2].type = "down" /\ sent'[n + 2].button = 1
                 /\ sent'[n + 3].msg = "MouseButtonAction"
                 /\ sent'[n + 3].type = "up" /\ sent'[n + 3].button = 1
                 /\ Unwrap(session').input_state_table = Unwrap(session).input_state_table
            ELSE /\ sent' = sent
                 /\ session' = session
                 /\ last'.resp.ok => last'.resp = Ok("Void", <<>>)
      ]_vars

\* C22: a NewSession that reaches focus acquisition sends at most 1500
\* GetFocusTopLevelBrowsingContext polls; it stops at the first poll answered with a
\* context (after `nulls` polls answered with none, it has sent nulls + 1) and creates the
\* session; when all 1500 are answered with none it fails with Timeout and creates none.
C22_FocusPollingBounded ==
    (last.cmd = "NewSession" /\ ~last.had /\ last.arg.kind \in {"legacy", "match"}) =>
        /\ pc \in {"wait_focus", "idle"}
        /\ Len(sent) <= 1500
        /\ \A i \in DOMAIN sent : sent[i].msg = "GetFocusTopLevelBrowsingContext"
        /\ (pc = "wait_focus") =>
              /\ Len(sent) = last.arg.nulls + 1
              /\ last.resp = Pending
              /\ ~IsSome(session)
        /\ (pc = "idle") =>
              IF last.arg.nulls < 1500
              THEN /\ Len(sent) = last.arg.nulls + 1
                   /\ last.resp.ok
                   /\ IsSome(session)
                   /\ Unwrap(session).top_level_browsing_context_id \in TopLevelIds
              ELSE /\ Len(sent) = 1500
                   /\ last.resp.status = "Timeout"
                   /\ ~IsSome(session)

\* The last poll of the 1500 is the first one answered with a context
C22_Witness ==
    /\ last.cmd = "NewSession"
    /\ ~last.had
    /\ last.arg.kind = "match"
    /\ last.arg.nulls = 1499
    /\ Len(sent) = 1500
    /\ pc = "idle"
    /\ IsSome(session)

\* C23: TakeScreenshot sends at most 30 TakeScreenshot requests, each with a reply
\* channel of its own; it stops at the first request answered with a framebuffer (after
\* `nones` requests answered with none it has sent nones + 1) and returns the encoded
\* image; when all 30 are answered with none it returns Timeout.
C23_ScreenshotPollingBounded ==
    (last.cmd = "TakeScreenshot") =>
        /\ Len(sent) <= 30
        /\ \A i \in DOMAIN sent :
              /\ sent[i].msg = "TakeScreenshot"
              /\ sent[i].ctx = Unwrap(session).top_level_browsing_context_id
              /\ sent[i].rect = None
        /\ \A i, j \in DOMAIN sent : i # j => sent[i].sender # sent[j].sender
        /\ (pc = "wait_shot") => (Len(sent) = last.arg.nones + 1 /\ last.resp = Pending)
        /\ (pc = "idle") =>
              IF last.arg.nones < 30
              THEN /\ Len(sent) = last.arg.nones + 1
                   /\ last.resp.ok
                   /\ last.resp.kind = "Value"
              ELSE /\ Len(sent) = 30
                   /\ last.resp.status = "Timeout"

\* The thirtieth request is the first one answered with a framebuffer
C23_Witness ==
    /\ last.cmd = "TakeScreenshot"
    /\ pc = "idle"
    /\ last.arg.nones = 29
    /\ Len(sent) = 30
    /\ last.resp.ok

\* C24: TakeElementScreenshot first sends GetBoundingClientRect for the element; no
\* TakeScreenshot request is sent before the reply; after a reply with a rect every
\* request that follows is a TakeScreenshot with that rect; after a reply without one the
\* command returns StaleElementReference and has sent nothing else.
C24_RectBeforeScreenshot ==
    (last.cmd = "TakeElementScreenshot") =>
        /\ Len(sent) >= 1
        /\ sent[1].msg = "ScriptCommand"
        /\ sent[1].cmd = "GetBoundingClientRect"
        /\ sent[1].args.element = last.arg.element
        /\ (~IsSome(last.arg.reply)) => Len(sent) = 1
        /\ (pc = "wait_reply") => ~IsSome(last.arg.reply)
        /\ (pc \in {"wait_shot", "idle"}) =>
              /\ IsSome(last.arg.reply)
              /\ IF Unwrap(last.arg.reply).ok
                 THEN /\ Len(sent) >= 2
                      /\ \A i \in 2..Len(sent) :
                            /\ sent[i].msg = "TakeScreenshot"
                            /\ sent[i].rect = Some(Unwrap(last.arg.reply).rect)
                      /\ (pc = "idle") => (last.resp.ok \/ last.resp.status = "Timeout")
                 ELSE /\ Len(sent) = 1
                      /\ pc = "idle"
                      /\ last.resp.status = "StaleElementReference"

\* The element is absent: StaleElementReference, and the rect query is all that was sent
C24_Witness ==
    /\ last.cmd = "TakeElementScreenshot"
    /\ pc = "idle"
    /\ ~Unwrap(last.arg.reply).ok
    /\ last.resp.status = "StaleElementReference"
    /\ Len(sent) = 1

\* C26: the response to ExecuteScript and to ExecuteAsyncScript is a Value for every
\* successful JS result, JavascriptError for BrowsingContextNotFound and JSError, Timeout
\* for Timeout, StaleElementReference for StaleElementReference and UnsupportedOperation
\* for UnknownType.
C26_JsErrorMapping ==
    (last.cmd \in {"ExecuteScript", "ExecuteAsyncScript"} /\ pc = "idle") =>
        LET result == Unwrap(last.arg.result) IN
        /\ result.ok => (last.resp.ok /\ last.resp.kind = "Value")
        /\ ~result.ok =>
              /\ ~last.resp.ok
              /\ result.error = "BrowsingContextNotFound" => last.resp.status = "JavascriptError"
              /\ result.error = "JSError" => last.resp.status = "JavascriptError"
              /\ result.error = "Timeout" => last.resp.status = "Timeout"
              /\ result.error = "StaleElementReference" =>
                    last.resp.status = "StaleElementReference"
              /\ result.error = "UnknownType" => last.resp.status = "UnsupportedOperation"

\* An asynchronous script whose result is of unknown type
C26_Witness ==
    /\ last.cmd = "ExecuteAsyncScript"
    /\ pc = "idle"
    /\ Unwrap(last.arg.result).error = "UnknownType"
    /\ last.resp.status = "UnsupportedOperation"

\* C27: the script ExecuteAsyncScript sends has the timer prefix exactly when the
\* session's script timeout is not null, with the session's current script timeout as its
\* delay, and is called with window.webdriverCallback; the script ExecuteScript sends is
\* the bare wrapper called with no argument.
C27_AsyncTimerPrefix ==
    /\ (last.cmd = "ExecuteAsyncScript") =>
          /\ sent[1].cmd = "ExecuteAsyncScript"
          /\ sent[1].args.script.timeout_script = Unwrap(session).script_timeout
          /\ sent[1].args.script.call =
                "(function(callback) { " \o last.arg.script \o " })(window.webdriverCallback)"
    /\ (last.cmd = "ExecuteScript") =>
          /\ sent[1].cmd = "ExecuteScript"
          /\ sent[1].args.script = "(function() { " \o last.arg.script \o " })()"

\* An asynchronous script sent while the script timeout is null: no timer
C27_Witness ==
    /\ last.cmd = "ExecuteAsyncScript"
    /\ Unwrap(session).script_timeout = None
    /\ sent[1].args.script.timeout_script = None

\* C28: an AddCookie sends exactly one AddCookie script command, with the cookie built
\* from the parameters, and leaves the session as it was; it returns Void when the engine
\* accepts the cookie, InvalidCookieDomain on InvalidDomain and UnableToSetCookie on
\* UnableToSetCookie.
C28_AddCookieMapping ==
    [][ (last'.cmd = "AddCookie") =>
            /\ session' = session
            /\ Len(sent') = 1
            /\ sent'[1].msg = "ScriptCommand"
            /\ sent'[1].cmd = "AddCookie"
            /\ sent'[1].ctx = Unwrap(session).browsing_context_id
            /\ sent'[1].args.cookie.name = last'.arg.params.name
            /\ sent'[1].args.cookie.domain = last'.arg.params.domain
            /\ sent'[1].args.cookie.path = last'.arg.params.path
            /\ sent'[1].args.cookie.secure = last'.arg.params.secure
            /\ (pc' = "idle") =>
                  /\ last'.arg.reply = "Ok" => last'.resp = Ok("Void", <<>>)
                  /\ last'.arg.reply = "InvalidDomain" =>
                        (~last'.resp.ok /\ last'.resp.status = "InvalidCookieDomain")
                  /\ last'.arg.reply = "UnableToSetCookie" =>
                        (~last'.resp.ok /\ last'.resp.status = "UnableToSetCookie")
                  /\ last'.arg.reply \in {"Ok", "InvalidDomain", "UnableToSetCookie"}
      ]_vars

\* The engine reports InvalidDomain
C28_Witness ==
    /\ last.cmd = "AddCookie"
    /\ pc = "idle"
    /\ last.arg.reply = "InvalidDomain"
    /\ last.resp.status = "InvalidCookieDomain"

\* C29: SwitchToWindow returns Void when the handle is the text of the session id and
\* NoSuchWindow for any other handle; it sends nothing and leaves the session, its
\* browsing_context_id included, as it was.
C29_SwitchToWindow ==
    [][ (last'.cmd = "SwitchToWindow") =>
            /\ session' = session
            /\ sent' = <<>>
            /\ pc' = "idle"
            /\ IF last'.arg.handle = <<"uuid-text", Unwrap(session).id[2]>>
               THEN last'.resp = Ok("Void", <<>>)
               ELSE ~last'.resp.ok /\ last'.resp.status = "NoSuchWindow"
      ]_vars

\* The handle of an earlier session is refused
C29_Witness ==
    /\ last.cmd = "SwitchToWindow"
    /\ Unwrap(session).id = <<"uuid", 2>>
    /\ last.arg.handle = <<"uuid-text", 1>>
    /\ last.resp.status = "NoSuchWindow"

\* The Handler is blocked in the recv of SetWindowRect
WaitsOnSize == pc = "wait_size"

\* Something will still put a size on the channel the Handler waits on: a size is there,
\* or the helper thread of this command holds its sender, or the engine holds the
\* GetWindowSize that carries it
SizeOnItsWay ==
    \/ windows.replies # <<>>
    \/ \E m \in windows.sleeping \cup windows.probes :
          m.msg = "GetWindowSize" /\ m.sender = <<"chan", last.arg.chan>>

\* C25: a SetWindowRect that has sent its SetWindowSize is never left without a source of
\* a size reply (the helper thread's GetWindowSize carries the sender of the same
\* channel), and whatever the engine does with the resize and however the engine's reply
\* and the helper's probe interleave, the Handler is unblocked and returns one WindowRect.
C25_ResizeAlwaysAnswered ==
    /\ [](WaitsOnSize =>
            /\ last.cmd = "SetWindowRect"
            /\ last.resp = Pending
            /\ sent = <<[msg |-> "SetWindowSize",
                         ctx |-> Unwrap(session).top_level_browsing_context_id,
                         size |-> <<IF IsSome(last.arg.params.width)
                                    THEN Unwrap(last.arg.params.width) ELSE 0,
                                    IF IsSome(last.arg.params.height)
                                    THEN Unwrap(last.arg.params.height) ELSE 0>>,
                         sender |-> <<"chan", last.arg.chan>>]>>
            /\ SizeOnItsWay)
    /\ (WaitsOnSize ~>
            (pc = "idle" /\ last.cmd = "SetWindowRect" /\ last.resp.kind = "WindowRect"))
    /\ [][ (WaitsOnSize /\ ~WaitsOnSize') =>
              /\ windows.replies # <<>>
              /\ last'.resp = Ok("WindowRect",
                                 [x |-> 0, y |-> 0, width |-> windows.replies[1][1],
                                  height |-> windows.replies[1][2]])
              /\ session' = session
       ]_vars

\* The engine ignored the resize and the command returned the size the window had
C25_Witness ==
    /\ last.cmd = "SetWindowRect"
    /\ pc = "idle"
    /\ last.arg.chan \in windows.ignored
    /\ last.arg.params.width = Some(400)
    /\ last.resp.kind = "WindowRect"
    /\ last.resp.val.width = 800

\* The value the last pair of a SetPrefs with this name carries
LastSet(pairs, name) ==
    pairs[CHOOSE i \in DOMAIN pairs :
              /\ pairs[i].key = name
              /\ \A j \in DOMAIN pairs : pairs[j].key = name => j <= i].value

Applied(body, resp) ==
    IF resp.ok THEN DOMAIN body
    ELSE {i \in DOMAIN body : \A j \in 1..i : PrefDefaults[body[j].key].t # "Missing"}

\* C31 (as claimed): the pairs SetPrefs is handed are the entries of the body, one pair
\* per entry, in the order of the body, and they are applied to the store in that order:
\* a name of the body holds afterwards the value of the last applied entry with that
\* name, and the other names hold what they held.
C31_SetPrefsInOrder ==
    [][ (last'.cmd = "SetPrefs") =>
            LET body == last'.arg.body
                pairs == last'.arg.pairs
                done == Applied(body, last'.resp)
            IN  /\ Len(pairs) = Len(body)
                /\ \A i \in DOMAIN body :
                      /\ pairs[i].key = body[i].key
                      /\ pairs[i].value.v = body[i].value.v
                      /\ pairs[i].value.t = (IF body[i].value.t = "num" THEN "Int" ELSE "Str")
                /\ \A name \in PrefNames :
                      LET at == {i \in done : body[i].key = name} IN
                      IF at = {} THEN prefs'[name] = prefs[name]
                      ELSE LET i == CHOOSE i \in at : \A j \in at : j <= i
                           IN  prefs'[name].v = body[i].value.v
      ]_vars

\* C32: a command handled in a session ends with a typed response or an error of the
\* protocol whenever the engine replies; the Handler thread is lost only when the engine
\* drops the reply sender. In particular a GetNamedCookie answered with an empty list of
\* cookies ends with a response.
C32_NoAbortOnReply ==
    /\ (pc = "panicked") => last.hangup
    /\ (pc = "idle" /\ last.cmd # "") => last.resp.kind \notin {"Pending", "Panic"}

\* The session without its three timeouts
WithoutTimeouts(s) ==
    [s EXCEPT !.script_timeout = None, !.load_timeout = 0, !.implicit_wait_timeout = 0]

\* C33: a SetTimeouts writes each timeout its parameters carry (script may be written
\* null), leaves the timeouts they do not carry and the rest of the session as they were,
\* and sends nothing; a GetTimeouts leaves the session alone and reports the three
\* timeouts the session holds, script as null when it is null. No other step between two
\* commands of one session touches the timeouts, so what GetTimeouts reports is the last
\* value set or the value of the session's creation.
C33_TimeoutsRoundTrip ==
    [][ /\ (last'.cmd = "SetTimeouts") =>
              LET p == last'.arg
                  s == Unwrap(session)
                  t == Unwrap(session')
              IN  /\ last'.resp = Ok("Void", <<>>)
                  /\ sent' = <<>>
                  /\ t.script_timeout =
                        IF p.script # None THEN p.script[1] ELSE s.script_timeout
                  /\ t.load_timeout =
                        IF p.page_load # None THEN p.page_load[1] ELSE s.load_timeout
                  /\ t.implicit_wait_timeout =
                        IF p.implicit # None THEN p.implicit[1] ELSE s.implicit_wait_timeout
                  /\ WithoutTimeouts(t) = WithoutTimeouts(s)
        /\ (last'.cmd = "GetTimeouts") =>
              /\ session' = session
              /\ sent' = <<>>
              /\ last'.resp.kind = "Timeouts"
              /\ last'.resp.val.script = Unwrap(session).script_timeout
              /\ last'.resp.val.page_load = Unwrap(session).load_timeout
              /\ last'.resp.val.implicit = Unwrap(session).implicit_wait_timeout
        /\ (last'.cmd \notin {"SetTimeouts", "NewSession", "DeleteSession"}
               /\ IsSome(session) /\ IsSome(session')) =>
              /\ Unwrap(session').script_timeout = Unwrap(session).script_timeout
              /\ Unwrap(session').load_timeout = Unwrap(session).load_timeout
              /\ Unwrap(session').implicit_wait_timeout = Unwrap(session).implicit_wait_timeout
      ]_vars

\* After a SetTimeouts of the page load timeout and one that sets script to null,
\* GetTimeouts reports both
C33_Witness ==
    /\ last.cmd = "GetTimeouts"
    /\ last.resp.val.script = None
    /\ last.resp.val.page_load = 50
    /\ last.resp.val.implicit = 7

\* C34: when ElementClick returns, with Void or with an error, the input state table
\* holds exactly the source ids it held when the reply of the engine arrived.
C34_NoTemporarySourceLeft ==
    [][ (last.cmd = "ElementClick" /\ pc = "wait_reply" /\ pc' = "idle") =>
            DOMAIN Unwrap(session').input_state_table =
                DOMAIN Unwrap(session).input_state_table
      ]_vars

\* C35: when the reply to the GetBrowsingContextId of a SwitchToFrame (element) or a
\* SwitchToParentFrame is an error, the command returns that error status and the session
\* is as it was; when it is an id, the command returns Void and browsing_context_id is
\* that id, the rest of the session as it was. A SwitchToFrame with a null id sends
\* nothing, returns Void and sets browsing_context_id to the top-level browsing context.
C35_FrameSwitchOutcome ==
    [][ /\ (pc = "wait_reply" /\ pc' = "idle"
               /\ last.cmd \in {"SwitchToFrame", "SwitchToParentFrame"}) =>
              LET s == Unwrap(session)
                  r == last'.got[1]
              IN  IF r.ok
                  THEN /\ last'.resp = Ok("Void", <<>>)
                       /\ Unwrap(session').browsing_context_id = r.ctx
                       /\ [Unwrap(session') EXCEPT !.browsing_context_id =
                                                     s.browsing_context_id] = s
                  ELSE /\ ~last'.resp.ok
                       /\ last'.resp.status = r.status
                       /\ session' = session
        /\ (last'.cmd = "SwitchToFrame" /\ last'.arg = None) =>
              LET s == Unwrap(session) IN
              /\ pc' = "idle"
              /\ sent' = <<>>
              /\ last'.resp = Ok("Void", <<>>)
              /\ Unwrap(session').browsing_context_id = <<"ctx", s.top_level_browsing_context_id[2]>>
              /\ [Unwrap(session') EXCEPT !.browsing_context_id = s.browsing_context_id] = s
      ]_vars

\* Inside a frame, a SwitchToFrame to an element that is no frame there: the error is
\* returned and the session stays in the frame
C35_Witness ==
    /\ last.cmd = "SwitchToFrame"
    /\ pc = "idle"
    /\ last.resp.status = "NoSuchFrame"
    /\ Unwrap(session).browsing_context_id[1] = "frame"

\* C36: ElementSendKeys sends FocusElement first and nothing else while it waits; the
\* SendKeys message follows only a successful focus reply and carries the browsing
\* context id of the FocusElement message, the session's current one; on an error reply
\* that error is the response and no SendKeys message is sent.
C36_SendKeysAfterFocus ==
    (last.cmd = "ElementSendKeys") =>
        /\ Len(sent) >= 1
        /\ sent[1].msg = "ScriptCommand" /\ sent[1].cmd = "FocusElement"
        /\ sent[1].ctx = Unwrap(session).browsing_context_id
        /\ (~IsSome(last.arg.focus)) => Len(sent) = 1
        /\ IsSome(last.arg.focus) =>
             IF Unwrap(last.arg.focus).ok
             THEN /\ sent = <<sent[1], SendKeysMsg(sent[1].ctx, last.arg.text)>>
                  /\ last.resp = Ok("Void", <<>>)
             ELSE /\ Len(sent) = 1
                  /\ last.resp = Err(Unwrap(last.arg.focus).status, "")

\* The keys were sent to a frame after a successful focus reply
C36_Witness ==
    /\ last.cmd = "ElementSendKeys"
    /\ pc = "idle"
    /\ IsSome(last.arg.focus)
    /\ Unwrap(last.arg.focus).ok
    /\ Len(sent) = 2
    /\ sent[2].msg = "SendKeys"
    /\ sent[2].ctx = FrameContext(document.gen)

\* C37: every command that takes an element handle is addressed to the session's current
\* browsing context, and GetTitle to the top-level one.
C37_ElementCommandsFollowFrame ==
    (pc = "wait_reply") =>
        /\ (last.cmd \in ElementCommands \cup FromElement) =>
              sent[1].ctx = Unwrap(session).browsing_context_id
        /\ (last.cmd = "GetTitle") =>
              sent[1].ctx = BrowsingContextIdFrom(Unwrap(session).top_level_browsing_context_id)

\* C38: Status is admitted whenever the Handler takes a command; it leaves the session
\* as it is and sends nothing to the engine; it reports ready = true exactly when there
\* is no session and ready = false exactly when there is one.
C38_StatusReportsSession ==
    [][ /\ (pc = "idle") => ENABLED HandleStatus
        /\ (last'.cmd = "Status" /\ last' # last) =>
              /\ pc = "idle" /\ pc' = "idle"
              /\ session' = session
              /\ sent' = <<>>
              /\ last'.resp.ok
              /\ last'.resp.val.ready = ~IsSome(session)
              /\ last'.resp.val.message = IF IsSome(session) THEN "Not ready for a new session"
                                          ELSE "Ready for a new session"
      ]_vars

\* Status answered ready again after a session was created and deleted
C38_Witness ==
    /\ last.cmd = "Status"
    /\ uuidCount >= 1
    /\ ~IsSome(session)
    /\ last.resp.val.ready

\* C39: with every child taken through advance_block_start_margin and then
\* advance_block_end_margin with the same CollapsibleMargins, advance_block_end_margin
\* never takes its panic arm, its two assertions on margin_in never fail, and the state
\* never goes back from AccumulatingMarginIn to AccumulatingCollapsibleTopMargin.
C39_MarginStateMachine ==
    [][ /\ flow'.ended = "returned"
        /\ (IsSome(flow.info) /\ Unwrap(flow.info).state = "AccumulatingMarginIn") =>
              Unwrap(flow'.info).state = "AccumulatingMarginIn"
      ]_vars

\* A child whose margins do not collapse went through the asserting arm after an earlier
\* child had left margin in margin_in, in a flow that began accumulating its top margin
C39_Witness ==
    /\ IsSome(flow.info)
    /\ flow.children = MaxChildren
    /\ ~IsSome(flow.child)
    /\ flow.ended = "returned"
    /\ flow.advance = 3
    /\ Unwrap(flow.info).state = "AccumulatingMarginIn"
    /\ Unwrap(flow.info).block_start_margin = [most_positive |-> 3, most_negative |-> -2]
    /\ Unwrap(flow.info).margin_in = AdjoiningMarginsNew

\* C40: Close queues a close event exactly when the dialog had the open attribute: on an
\* open dialog it removes the attribute, sets returnValue to the argument if there is
\* one, and queues one event; on a dialog that is not open it changes nothing.
C40_CloseQueuesIffOpen ==
    [][ (dialog'.calls = dialog.calls + 1 /\ dialog'.call = "Close") =>
           IF dialog.open
           THEN /\ ~dialog'.open
                /\ dialog'.return_value = IF IsSome(dialog'.argument)
                                          THEN Unwrap(dialog'.argument)
                                          ELSE dialog.return_value
                /\ dialog'.queued = dialog.queued + 1
           ELSE /\ ~dialog'.open
                /\ dialog'.return_value = dialog.return_value
                /\ dialog'.queued = dialog.queued
      ]_vars

\* Two Close calls on an open dialog with another value each time, and the dialog opened
\* again in between: two events queued, the value of the second call kept
C40_Witness ==
    /\ dialog.calls = MaxCalls
    /\ dialog.call = "Close"
    /\ dialog.was_open
    /\ dialog.queued = 2
    /\ dialog.argument = Some("y")
    /\ dialog.return_value = "y"
    /\ ~dialog.open
====
